---- MODULE Spec2Model ----
(***************************************************************************)
(* A model of the SampleFlow pieces used by the mcmc-laplace benchmark:    *)
(*   - SampleFlow::ThreadPool           (sampleflow/thread_pool.h)         *)
(*   - SampleFlow::Consumers::MeanValue (sampleflow/consumers/mean_value.h)*)
(*   - SampleFlow::Filters::TakeNEveryM (sampleflow/filters/take_n_every_m.h) *)
(* Each component has its own specification (SpecPool, SpecMean,           *)
(* SpecFilter); the variables of the other components stay at their        *)
(* initial values.                                                         *)
(***************************************************************************)
EXTENDS Integers, Sequences, FiniteSets, TLC

VARIABLES
  \* ---- ThreadPool members (thread_pool.h:63-74)
  n_worker_threads,           \* unsigned int n_worker_threads
  stop_signal,                \* bool stop_signal
  task_queue,                 \* std::deque<std::pair<unsigned int, task>>
  currently_executing_tasks,  \* unsigned int currently_executing_tasks
  queue_mutex,                \* std::mutex queue_mutex: the holding thread
  wake_up_mutex,              \* std::mutex wake_up_mutex: the holding thread
  wake_up_signal,             \* std::condition_variable: the blocked threads
  \* ---- threads of the pool scenario
  pc,                         \* position of the main thread (0) and the workers
  task,                       \* per thread: the task it enqueues / executes
  inline_stack,               \* tasks executing inline on the main thread
  in_dtor,                    \* the main thread is inside ~ThreadPool
  n_joined,                   \* worker threads the destructor has joined
  \* ---- history of the pool scenario
  n_submitted,                \* enqueue_task calls made by the main thread
  enqueued,                   \* the tasks whose enqueue_task call returned
  started,                    \* the tasks whose execution began
  finished,                   \* the tasks that ran to completion
  join_snapshot,              \* value of 'enqueued' when join_all was called
  lock_order,                 \* the tasks, in the order in which their
                              \* enqueue_task calls took queue_mutex
  pop_order,                  \* the tasks, in the order in which workers
                              \* took them out of the queue
  run_order,                  \* the tasks, in the order in which their
                              \* task() calls began
  \* ---- MeanValue members (mean_value.h:139-150)
  mean_mutex,                 \* mutable std::mutex mutex: the holding thread
  current_mean,               \* InputType current_mean (an exact fraction)
  n_samples,                  \* types::sample_index n_samples
  \* ---- threads of the MeanValue scenario
  mean_pc,                    \* position of the reader (0) and the consumers
  mean_sample,                \* per thread: the argument 'sample' of consume
  calls_left,                 \* per thread: consume calls still to be made
  n_calls,                    \* consume calls each thread makes in total
  \* ---- history of the MeanValue scenario
  submitted_sum,              \* sum of all samples passed to consume
  consumed_sum,               \* sum of the samples of finished updates
  consumed_n,                 \* number of finished updates
  get_result,                 \* the value the last get() returned
  get_seen,                   \* finished updates when get() took the mutex
  \* ---- TakeNEveryM members (take_n_every_m.h:98-110)
  filter_mutex,               \* std::mutex mutex: the holding thread
  counter,                    \* types::sample_index counter
  every_mth,                  \* const types::sample_index every_mth
  filter_n_samples,           \* const types::sample_index n_samples
  \* ---- threads of the TakeNEveryM scenario
  filter_pc,                  \* position of each thread calling filter
  my_counter,                 \* per thread: the local my_counter
  \* ---- history of the TakeNEveryM scenario
  n_arrived,                  \* samples that have arrived (taken the mutex)
  arrival,                    \* per thread: arrival index of its sample
  forwarded,                  \* arrival indices of the samples passed on
  dropped,                    \* arrival indices of the samples discarded
  \* ---- subscribers attached to one producer
  sub_class,                  \* per subscriber: its class
  sub_mode,                   \* per subscriber: how it is dispatched to
  registered,                 \* the subscribers connected to the producer
  private_lock,               \* per subscriber: holder of its dispatch lock
  pending,                    \* per subscriber: offloaded dispatches queued
  running,                    \* per subscriber: offloaded dispatches running
  sub_state,                  \* per subscriber: position of its destructor
  \* ---- threads of the dispatch scenario
  emit_pc,                    \* position of each thread calling emit
  emit_todo,                  \* per thread: subscribers still to be served
  emit_cur,                   \* per thread: the subscriber it dispatches to
  emits_left,                 \* emit calls still to be made
  \* ---- the population sampler
  n_chains,                   \* number of chains
  budget,                     \* the argument n_samples of sample()
  n_samples_per_chain,        \* main's parameter (0: another caller)
  generation,                 \* the generation being advanced
  population,                 \* per chain: moves it has made
  snapshot,                   \* the population at the generation's start
  n_emitted,                  \* samples emitted
  \* ---- two sequential runs of the sampler
  random_seed,                \* const unsigned int random_seed
  seq_chains,                 \* number of chains of both runs
  seq_budget,                 \* the argument n_samples of both runs
  random_number_generator,    \* per run: main's std::mt19937 (its state)
  sampler_rng,                \* per run: the sampler's own generator
  current_samples,            \* per run and chain: the current sample
  seq_snapshot,               \* per run: population at the generation start
  n_steps,                    \* per run: chain steps made
  emitted,                    \* per run: the samples emitted, in order
  \* ---- one call of the log_likelihood lambda
  candidate,                  \* the argument x
  score_pc,                   \* position inside the lambda
  score_i,                    \* the component the loop is at
  score_result,               \* the value returned
  n_evaluate,                 \* calls of laplace_problem.evaluate
  \* ---- a ThreadPool under construction
  arg_max_threads,            \* the argument max_threads
  sys_hardware_concurrency,   \* std::thread::hardware_concurrency()
  env_OMP_NUM_THREADS,        \* getenv("OMP_NUM_THREADS"), converted by atoi
  ctor_pc,                    \* position inside the constructor
  worker_threads,             \* std::vector<std::thread> worker_threads: its size
  \* ---- main, before sampling
  prm_chains,                 \* the entry "Number of chains" of the parameter file
  main_pc,                    \* position inside main
  main_n_chains,              \* unsigned int n_chains
  sampler_declared,           \* the sampler has been constructed
  connected,                  \* the filters and consumers are connected
  sample_chains,              \* starting samples passed to sampler.sample
  \* ---- a distribution of sampleflow/random.h
  dist_class,                 \* uniform_real_distribution or uniform_int_distribution
  dist_a,                     \* the member a
  dist_b,                     \* the member b
  rng_draws,                  \* per generator: the values rng() has returned
  dist_results,               \* per object: the values operator() has returned
  \* ---- the arguments and the result of TakeNEveryM::filter
  filter_sample,              \* per caller: the argument sample
  filter_aux_data,            \* per caller: the argument aux_data
  filter_result               \* per caller: the object the last call returned

poolVars == << n_worker_threads, stop_signal, task_queue,
               currently_executing_tasks, queue_mutex, wake_up_mutex,
               wake_up_signal, pc, task, inline_stack, in_dtor, n_joined,
               n_submitted, enqueued, started, finished, join_snapshot,
               lock_order, pop_order, run_order >>

meanVars == << mean_mutex, current_mean, n_samples, mean_pc, mean_sample,
               calls_left, n_calls, submitted_sum, consumed_sum, consumed_n,
               get_result, get_seen >>

filterVars == << filter_mutex, counter, every_mth, filter_n_samples,
                 filter_pc, my_counter, n_arrived, arrival, forwarded,
                 dropped >>

dispatchVars == << sub_class, sub_mode, registered, private_lock, pending,
                   running, sub_state, emit_pc, emit_todo, emit_cur,
                   emits_left >>

driverVars == << n_chains, budget, n_samples_per_chain, generation,
                 population, snapshot, n_emitted >>

seqVars == << random_seed, seq_chains, seq_budget, random_number_generator,
              sampler_rng, current_samples, seq_snapshot, n_steps,
              emitted >>

scoreVars == << candidate, score_pc, score_i, score_result, n_evaluate >>

ctorVars == << arg_max_threads, sys_hardware_concurrency,
               env_OMP_NUM_THREADS, ctor_pc, worker_threads >>

setupVars == << prm_chains, main_pc, main_n_chains, sampler_declared, connected, sample_chains >>

randVars == << dist_class, dist_a, dist_b, rng_draws, dist_results >>

dataVars == << filter_sample, filter_aux_data, filter_result >>

vars == << poolVars, meanVars, filterVars, dispatchVars, driverVars,
           seqVars, scoreVars,
           ctorVars,
           setupVars,
           randVars,
           dataVars >>

----------------------------------------------------------------------------
(* Bounds *)

MaxWorkers == 2     \* largest number of worker threads
MaxTasks   == 2     \* enqueue_task calls made by the main thread
MaxThreads == 2     \* threads calling MeanValue::consume concurrently
MaxCalls   == 2     \* consume calls made by each of these threads
MaxSample  == 1     \* the samples are the integers -1 .. MaxSample
MaxFilterThreads == 2   \* threads calling TakeNEveryM::filter concurrently
MaxEvery   == 5     \* largest every_mth
MaxTake    == 3     \* largest n_samples of a TakeNEveryM
MaxInputs  == 15    \* samples sent through a TakeNEveryM
MaxInputsZero == 3  \* the same for a TakeNEveryM whose every_mth is 0
MaxSubscribers == 2 \* subscribers connected to the producer
MaxEmitters == 2    \* threads calling emit concurrently
MaxEmits   == 2     \* emit calls made in total
MaxChains  == 3     \* largest number of chains
MaxPerChain == 2    \* largest n_samples_per_chain of main
MaxBudget  == 5     \* largest budget of a caller other than main
MaxSeed    == 2     \* largest seed other than main's
MaxSeqBudget == 5   \* largest budget of the sequential runs
RngMax     == 4     \* largest value the random number generator returns
MaxDim     == 3     \* largest number of components of a candidate
MaxComponent == 2   \* the components are the integers -1 .. MaxComponent
MaxCtorThreads == 2 \* largest max_threads, besides the documented examples
MaxOutside == 3     \* configured chain counts reach this far outside 3..100
MaxPipeEvery == 2   \* largest every_mth of a TakeNEveryM with a consumer
MaxEndpoint == 2    \* a and b of a distribution are integers -1 .. MaxEndpoint
MaxRandCalls == 3   \* calls of operator() made in total
MaxDataEvery == 2   \* largest every_mth and n_samples of a TakeNEveryM given data
MaxDataInputs == 2  \* calls of filter that are given data
MaxAux     == 1     \* samples and auxiliary data given to filter: 0 .. MaxAux
MaxSubChains == 3   \* largest number of chains feeding main's subsampler
MaxGenerations == 65 \* generations the subsampler is followed for

----------------------------------------------------------------------------
(* Helpers *)

Min(a, b) == IF a < b THEN a ELSE b

\* unsigned int arithmetic wraps around. TLC's integers end at 2^31 - 1, so
\* the largest unsigned value is represented by the largest TLC integer.
UIntMax == 2147483647
ToUnsigned(i) == IF i < 0 THEN UIntMax + (1 + i) ELSE i

NoThread == -1                 \* an unlocked std::mutex
Main     == 0                  \* the thread that owns the pool
NoTask   == [tid |-> 0, parent |-> FALSE]   \* an empty std::function
NoEnv    == << >>              \* getenv("OMP_NUM_THREADS") returned null

Workers == 1 .. n_worker_threads

\* The tasks the main thread submits are numbered 1..MaxTasks. A task is
\* either a leaf, or a parent whose body enqueues one child (a leaf) on the
\* same pool.
ChildOf(t) == [tid |-> t.tid + MaxTasks, parent |-> FALSE]
AllTasks   == [tid : 1 .. (2 * MaxTasks), parent : BOOLEAN]

----------------------------------------------------------------------------
(* ThreadPool::ThreadPool -- the number of worker threads *)

\* env_p is << >> if OMP_NUM_THREADS is not set, else << atoi(env_p) >>
ThreadPoolCtor(max_threads, hardware_concurrency, env_p) ==
  LET concurrency0 == IF env_p # NoEnv
                        THEN Min(ToUnsigned(env_p[1]),
                                 hardware_concurrency)
                        ELSE hardware_concurrency
      concurrency  == IF concurrency0 # 0 THEN concurrency0 - 1
                                          ELSE concurrency0
  IN  Min(concurrency, max_threads)

----------------------------------------------------------------------------
(* std::mutex, std::condition_variable *)

\* std::lock_guard / std::unique_lock constructor: blocks until the mutex
\* is free
CanLock(mutex) == mutex = NoThread

\* notify_one: wakes one of the blocked threads, if there is one
NotifyOne(blocked) ==
  IF blocked = {} THEN {blocked} ELSE { blocked \ {w} : w \in blocked }

\* notify_all: wakes all blocked threads
NotifyAll(blocked) == {}

----------------------------------------------------------------------------
(* Initial state: the pool has been constructed, its workers started *)

InitPool ==
  /\ \E max_threads \in 0 .. MaxWorkers,
        hardware_concurrency \in 0 .. (MaxWorkers + 1),
        env_p \in {NoEnv} \cup { << i >> : i \in -1 .. (MaxWorkers + 2) } :
       n_worker_threads = ThreadPoolCtor(max_threads, hardware_concurrency,
                                         env_p)
  /\ stop_signal = FALSE
  /\ task_queue = << >>
  /\ currently_executing_tasks = 0
  /\ queue_mutex = NoThread
  /\ wake_up_mutex = NoThread
  /\ wake_up_signal = {}
  /\ pc = [t \in 0 .. n_worker_threads |->
             IF t = Main THEN "m_idle" ELSE "lock"]
  /\ task = [t \in 0 .. n_worker_threads |-> NoTask]
  /\ inline_stack = << >>
  /\ in_dtor = FALSE
  /\ n_joined = 0
  /\ n_submitted = 0
  /\ enqueued = {}
  /\ started = {}
  /\ finished = {}
  /\ join_snapshot = {}
  /\ lock_order = << >>
  /\ pop_order = << >>
  /\ run_order = << >>

\* no MeanValue object takes part
NoMean ==
  /\ mean_mutex = NoThread
  /\ current_mean = [num |-> 0, den |-> 1]
  /\ n_samples = 0
  /\ mean_pc = << >>
  /\ mean_sample = << >>
  /\ calls_left = << >>
  /\ n_calls = 0
  /\ submitted_sum = 0
  /\ consumed_sum = 0
  /\ consumed_n = 0
  /\ get_result = [num |-> 0, den |-> 1]
  /\ get_seen = [sum |-> 0, n |-> 0]

\* no TakeNEveryM object takes part
NoFilter ==
  /\ filter_mutex = NoThread
  /\ counter = 0
  /\ every_mth = 1
  /\ filter_n_samples = 0
  /\ filter_pc = << >>
  /\ my_counter = << >>
  /\ n_arrived = 0
  /\ arrival = << >>
  /\ forwarded = {}
  /\ dropped = {}

\* no ThreadPool object takes part
NoPool ==
  /\ n_worker_threads = 0
  /\ stop_signal = FALSE
  /\ task_queue = << >>
  /\ currently_executing_tasks = 0
  /\ queue_mutex = NoThread
  /\ wake_up_mutex = NoThread
  /\ wake_up_signal = {}
  /\ pc = << >>
  /\ task = << >>
  /\ inline_stack = << >>
  /\ in_dtor = FALSE
  /\ n_joined = 0
  /\ n_submitted = 0
  /\ enqueued = {}
  /\ started = {}
  /\ finished = {}
  /\ join_snapshot = {}
  /\ lock_order = << >>
  /\ pop_order = << >>
  /\ run_order = << >>

\* no subscriber takes part
NoDispatch ==
  /\ sub_class = << >>
  /\ sub_mode = << >>
  /\ registered = {}
  /\ private_lock = << >>
  /\ pending = << >>
  /\ running = << >>
  /\ sub_state = << >>
  /\ emit_pc = << >>
  /\ emit_todo = << >>
  /\ emit_cur = << >>
  /\ emits_left = 0

\* no sampler takes part
NoDriver ==
  /\ n_chains = 0
  /\ budget = 0
  /\ n_samples_per_chain = 0
  /\ generation = 0
  /\ population = << >>
  /\ snapshot = << >>
  /\ n_emitted = 0

\* no sequential run takes part
NoSeq ==
  /\ random_seed = 0
  /\ seq_chains = 0
  /\ seq_budget = 0
  /\ random_number_generator = << >>
  /\ sampler_rng = << >>
  /\ current_samples = << >>
  /\ seq_snapshot = << >>
  /\ n_steps = << >>
  /\ emitted = << >>

\* no candidate is being scored
NoScore ==
  /\ candidate = << >>
  /\ score_pc = "returned"
  /\ score_i = 0
  /\ score_result = [inf |-> FALSE, val |-> [num |-> 0, den |-> 1]]
  /\ n_evaluate = 0

\* no constructor is running
NoCtor ==
  /\ arg_max_threads = 0
  /\ sys_hardware_concurrency = 0
  /\ env_OMP_NUM_THREADS = NoEnv
  /\ ctor_pc = "constructed"
  /\ worker_threads = 0

\* main is not being set up
NoSetup ==
  /\ prm_chains = << >>
  /\ main_pc = "sampling"
  /\ main_n_chains = 0
  /\ sampler_declared = FALSE
  /\ connected = FALSE
  /\ sample_chains = 0

\* no distribution is in use
NoRand ==
  /\ dist_class = "none"
  /\ dist_a = 0
  /\ dist_b = 0
  /\ rng_draws = << >>
  /\ dist_results = << >>

\* the data passed through the filter is not followed
NoData ==
  /\ filter_sample = << >>
  /\ filter_aux_data = << >>
  /\ filter_result = << >>

----------------------------------------------------------------------------
(* Frame: what the actions of one component leave alone *)

PoolFrame     == UNCHANGED << meanVars, filterVars, dispatchVars,
                              driverVars, seqVars, scoreVars,
                              ctorVars,
                              setupVars,
                              randVars,
                              dataVars >>
MeanFrame     == UNCHANGED << poolVars, filterVars, dispatchVars,
                              driverVars, seqVars, scoreVars,
                              ctorVars,
                              setupVars,
                              randVars,
                              dataVars >>
FilterFrame   == UNCHANGED << poolVars, meanVars, dispatchVars,
                              driverVars, seqVars, scoreVars,
                              ctorVars,
                              setupVars,
                              randVars,
                              dataVars >>
DispatchFrame == UNCHANGED << poolVars, meanVars, filterVars, driverVars,
                              seqVars, scoreVars,
                              ctorVars,
                              setupVars,
                              randVars,
                              dataVars >>
DriverFrame   == UNCHANGED << meanVars, filterVars, dispatchVars, seqVars,
                              scoreVars,
                              ctorVars,
                              setupVars,
                              randVars,
                              dataVars >>
SeqFrame      == UNCHANGED << poolVars, meanVars, filterVars, dispatchVars,
                              driverVars, scoreVars,
                              ctorVars,
                              setupVars,
                              randVars,
                              dataVars >>
ScoreFrame    == UNCHANGED << poolVars, meanVars, filterVars, dispatchVars,
                              driverVars, seqVars,
                              ctorVars,
                              setupVars,
                              randVars,
                              dataVars >>
SubFrame      == UNCHANGED << poolVars, meanVars, dispatchVars, seqVars,
                              scoreVars, ctorVars, setupVars,
                              randVars,
                              dataVars >>
CtorFrame     == UNCHANGED << meanVars, filterVars, dispatchVars,
                              driverVars, seqVars, scoreVars,
                              setupVars,
                              randVars,
                              dataVars >>
SetupFrame    == UNCHANGED << poolVars, meanVars, filterVars, dispatchVars,
                              driverVars, seqVars, scoreVars, ctorVars,
                              randVars,
                              dataVars >>
RandFrame     == UNCHANGED << poolVars, meanVars, filterVars, dispatchVars,
                              driverVars, seqVars, scoreVars, ctorVars,
                              setupVars,
                              dataVars >>
DataFrame     == UNCHANGED << poolVars, meanVars, dispatchVars, driverVars,
                              seqVars, scoreVars, ctorVars, setupVars,
                              randVars >>
RunFrame      == UNCHANGED << filterVars, dispatchVars, seqVars, scoreVars,
                              ctorVars, setupVars, randVars, dataVars >>
PipeFrame     == UNCHANGED << poolVars, dispatchVars, driverVars, seqVars,
                              scoreVars,
                              ctorVars,
                              setupVars,
                              randVars,
                              dataVars >>

----------------------------------------------------------------------------
(* ThreadPool::enqueue_task *)

n_tasks == 0     \* 'static int n_tasks = 0', never modified

\* The task a thread is passing to enqueue_task: the main thread submits
\* task[Main]; a worker that executes a parent task submits its child.
Enqueuing(th) == IF th = Main THEN task[Main] ELSE ChildOf(task[th])

\* an enqueue_task that queues the task whether or not there are workers
RunsOnWorkers_Always(n_workers) == TRUE

\* 'if (n_worker_threads >= 1)': the task goes to the queue
RunsOnWorkers(n_workers) == n_workers >= 1

\* the main thread calls enqueue_task; with no worker threads the task is
\* executed outright
MEnqueueTask(parent) ==
  /\ pc[Main] = "m_idle" /\ ~in_dtor
  /\ n_submitted < MaxTasks
  /\ n_submitted' = n_submitted + 1
  /\ LET t == [tid |-> n_submitted + 1, parent |-> parent]
     IN  IF RunsOnWorkers(n_worker_threads)
           THEN /\ task' = [task EXCEPT ![Main] = t]
                /\ pc' = [pc EXCEPT ![Main] = "e_lock"]
                /\ UNCHANGED << inline_stack, started, run_order >>
           ELSE /\ inline_stack' = << [task |-> t, spawned |-> FALSE] >>
                /\ started' = started \cup {t}
                /\ run_order' = Append(run_order, t)
                /\ pc' = [pc EXCEPT ![Main] = "e_inline"]
                /\ UNCHANGED task
  /\ UNCHANGED << n_worker_threads, stop_signal, task_queue,
                  currently_executing_tasks, queue_mutex, wake_up_mutex,
                  wake_up_signal, in_dtor, n_joined, enqueued, finished,
                  join_snapshot,
                  lock_order, pop_order >>
  /\ PoolFrame

\* std::lock_guard<std::mutex> lock(queue_mutex)
EnqLock(th) ==
  /\ pc[th] = "e_lock"
  /\ CanLock(queue_mutex)
  /\ queue_mutex' = th
  /\ pc' = [pc EXCEPT ![th] = "e_push"]
  /\ lock_order' = Append(lock_order, Enqueuing(th))
  /\ UNCHANGED << n_worker_threads, stop_signal, task_queue,
                  currently_executing_tasks, wake_up_mutex, wake_up_signal,
                  task, inline_stack, in_dtor, n_joined, n_submitted,
                  enqueued, started, run_order, finished, join_snapshot,
                  pop_order >>
  /\ PoolFrame

\* an enqueue_task whose lock lives until the function returns
EnqPush_KeepsLock(th) ==
  /\ pc[th] = "e_push"
  /\ task_queue' = Append(task_queue,
                          [first |-> n_tasks, second |-> Enqueuing(th)])
  /\ pc' = [pc EXCEPT ![th] = "e_notify"]
  /\ UNCHANGED << n_worker_threads, stop_signal, queue_mutex,
                  currently_executing_tasks, wake_up_mutex, wake_up_signal,
                  task, inline_stack, in_dtor, n_joined, n_submitted,
                  enqueued, started, run_order, finished, join_snapshot,
                  lock_order, pop_order >>
  /\ PoolFrame

\* an enqueue_task that puts the task at the front of the queue
EnqPush_AtFront(th) ==
  /\ pc[th] = "e_push"
  /\ task_queue' = << [first |-> n_tasks, second |-> Enqueuing(th)] >>
                      \o task_queue
  /\ queue_mutex' = NoThread
  /\ pc' = [pc EXCEPT ![th] = "e_notify"]
  /\ UNCHANGED << n_worker_threads, stop_signal,
                  currently_executing_tasks, wake_up_mutex, wake_up_signal,
                  task, inline_stack, in_dtor, n_joined, n_submitted,
                  enqueued, started, run_order, finished, join_snapshot,
                  lock_order, pop_order >>
  /\ PoolFrame

\* task_queue.emplace_back(n_tasks, ...), then the lock is given back
EnqPush(th) ==
  /\ pc[th] = "e_push"
  /\ task_queue' = Append(task_queue,
                          [first |-> n_tasks, second |-> Enqueuing(th)])
  /\ queue_mutex' = NoThread
  /\ pc' = [pc EXCEPT ![th] = "e_notify"]
  /\ UNCHANGED << n_worker_threads, stop_signal,
                  currently_executing_tasks, wake_up_mutex, wake_up_signal,
                  task, inline_stack, in_dtor, n_joined, n_submitted,
                  enqueued, started, run_order, finished, join_snapshot,
                  lock_order, pop_order >>
  /\ PoolFrame

\* wake_up_signal.notify_one(); enqueue_task returns. On a worker the
\* caller is the body of a parent task, which returns as well.
EnqNotify(th) ==
  /\ pc[th] = "e_notify"
  /\ wake_up_signal' \in NotifyOne(wake_up_signal)
  /\ enqueued' = enqueued \cup {Enqueuing(th)}
  /\ IF th = Main
       THEN /\ pc' = [pc EXCEPT ![th] = "m_idle"]
            /\ task' = [task EXCEPT ![th] = NoTask]
            /\ UNCHANGED finished
       ELSE /\ pc' = [pc EXCEPT ![th] = "dec_lock"]
            /\ finished' = finished \cup {task[th]}
            /\ UNCHANGED task
  /\ UNCHANGED << n_worker_threads, stop_signal, task_queue,
                  currently_executing_tasks, queue_mutex, wake_up_mutex,
                  inline_stack, in_dtor, n_joined, n_submitted, started, run_order,
                  join_snapshot,
                  lock_order, pop_order >>
  /\ PoolFrame

\* no worker threads: 'task()' runs on the calling thread. A parent task
\* calls enqueue_task for its child, which again executes it outright.
EnqInline ==
  /\ pc[Main] = "e_inline"
  /\ LET depth == Len(inline_stack)
         top   == inline_stack[depth]
     IN  IF top.task.parent /\ ~top.spawned
           THEN /\ inline_stack' =
                     Append([inline_stack EXCEPT ![depth].spawned = TRUE],
                            [task |-> ChildOf(top.task), spawned |-> FALSE])
                /\ started' = started \cup {ChildOf(top.task)}
                /\ run_order' = Append(run_order, ChildOf(top.task))
                /\ UNCHANGED << pc, finished, enqueued >>
           ELSE /\ inline_stack' = SubSeq(inline_stack, 1, depth - 1)
                /\ finished' = finished \cup {top.task}
                /\ enqueued' = enqueued \cup {top.task}
                /\ pc' = [pc EXCEPT ![Main] =
                            IF depth = 1 THEN "m_idle" ELSE "e_inline"]
                /\ UNCHANGED << started, run_order >>
  /\ UNCHANGED << n_worker_threads, stop_signal, task_queue,
                  currently_executing_tasks, queue_mutex, wake_up_mutex,
                  wake_up_signal, task, in_dtor, n_joined, n_submitted,
                  join_snapshot,
                  lock_order, pop_order >>
  /\ PoolFrame

\* no worker threads and task() throws: enqueue_task has no handler, the
\* exception leaves enqueue_task and goes to its caller
InlineThrow ==
  /\ pc[Main] = "e_inline"
  /\ pc' = [pc EXCEPT ![Main] = "threw"]
  /\ UNCHANGED << n_worker_threads, stop_signal, task_queue,
                  currently_executing_tasks, queue_mutex, wake_up_mutex,
                  wake_up_signal, task, inline_stack, in_dtor, n_joined,
                  n_submitted, enqueued, started, run_order, finished,
                  join_snapshot,
                  lock_order, pop_order >>
  /\ PoolFrame

----------------------------------------------------------------------------
(* ThreadPool::join_all *)

\* a join_all that looks at the queue only
JoinAllDone_QueueOnly(queue, executing) == queue = << >>

\* the return condition, evaluated under queue_mutex
JoinAllDone(queue, executing) == queue = << >> /\ executing = 0

\* entry of join_all: without worker threads it returns at once
JoinAllEntry(n_workers) == IF n_workers >= 1 THEN "j_lock" ELSE "j_ret"

\* the main thread calls join_all()
JoinAllCall ==
  /\ pc[Main] = "m_idle" /\ ~in_dtor
  /\ join_snapshot' = enqueued
  /\ UNCHANGED << lock_order, pop_order >>
  /\ pc' = [pc EXCEPT ![Main] = JoinAllEntry(n_worker_threads)]
  /\ UNCHANGED << n_worker_threads, stop_signal, task_queue,
                  currently_executing_tasks, queue_mutex, wake_up_mutex,
                  wake_up_signal, task, inline_stack, in_dtor, n_joined,
                  n_submitted, enqueued, started, run_order, finished >>
  /\ PoolFrame

JoinLock ==
  /\ pc[Main] = "j_lock"
  /\ CanLock(queue_mutex)
  /\ queue_mutex' = Main
  /\ pc' = [pc EXCEPT ![Main] = "j_check"]
  /\ UNCHANGED << n_worker_threads, stop_signal, task_queue,
                  currently_executing_tasks, wake_up_mutex, wake_up_signal,
                  task, inline_stack, in_dtor, n_joined, n_submitted,
                  enqueued, started, run_order, finished, join_snapshot,
                  lock_order, pop_order >>
  /\ PoolFrame

\* if (task_queue.empty() && currently_executing_tasks == 0) return;
\* otherwise give the lock back, yield and try again
JoinCheck ==
  /\ pc[Main] = "j_check"
  /\ queue_mutex' = NoThread
  /\ pc' = [pc EXCEPT ![Main] =
              IF JoinAllDone(task_queue, currently_executing_tasks)
                THEN "j_ret" ELSE "j_lock"]
  /\ UNCHANGED << n_worker_threads, stop_signal, task_queue,
                  currently_executing_tasks, wake_up_mutex, wake_up_signal,
                  task, inline_stack, in_dtor, n_joined, n_submitted,
                  enqueued, started, run_order, finished, join_snapshot,
                  lock_order, pop_order >>
  /\ PoolFrame

\* join_all has returned; the caller goes on
JoinReturn ==
  /\ pc[Main] = "j_ret"
  /\ pc' = [pc EXCEPT ![Main] = IF in_dtor THEN "d_lock" ELSE "m_idle"]
  /\ UNCHANGED << n_worker_threads, stop_signal, task_queue,
                  currently_executing_tasks, queue_mutex, wake_up_mutex,
                  wake_up_signal, task, inline_stack, in_dtor, n_joined,
                  n_submitted, enqueued, started, run_order, finished,
                  join_snapshot,
                  lock_order, pop_order >>
  /\ PoolFrame

----------------------------------------------------------------------------
(* ThreadPool::~ThreadPool *)

\* a destructor that sets the stop signal without draining first
DtorEntry_NoJoin(n_workers) == "d_lock"

\* the first statement of the destructor: join_all()
DtorEntry(n_workers) == JoinAllEntry(n_workers)

DtorCall ==
  /\ pc[Main] = "m_idle" /\ ~in_dtor
  /\ in_dtor' = TRUE
  /\ join_snapshot' = enqueued
  /\ UNCHANGED << lock_order, pop_order >>
  /\ pc' = [pc EXCEPT ![Main] = DtorEntry(n_worker_threads)]
  /\ UNCHANGED << n_worker_threads, stop_signal, task_queue,
                  currently_executing_tasks, queue_mutex, wake_up_mutex,
                  wake_up_signal, task, inline_stack, n_joined,
                  n_submitted, enqueued, started, run_order, finished >>
  /\ PoolFrame

DtorLock ==
  /\ pc[Main] = "d_lock"
  /\ CanLock(queue_mutex)
  /\ queue_mutex' = Main
  /\ pc' = [pc EXCEPT ![Main] = "d_stop"]
  /\ UNCHANGED << n_worker_threads, stop_signal, task_queue,
                  currently_executing_tasks, wake_up_mutex, wake_up_signal,
                  task, inline_stack, in_dtor, n_joined, n_submitted,
                  enqueued, started, run_order, finished, join_snapshot,
                  lock_order, pop_order >>
  /\ PoolFrame

\* stop_signal = true; then the lock is given back
DtorStop ==
  /\ pc[Main] = "d_stop"
  /\ stop_signal' = TRUE
  /\ queue_mutex' = NoThread
  /\ pc' = [pc EXCEPT ![Main] = "d_notify"]
  /\ UNCHANGED << n_worker_threads, task_queue,
                  currently_executing_tasks, wake_up_mutex, wake_up_signal,
                  task, inline_stack, in_dtor, n_joined, n_submitted,
                  enqueued, started, run_order, finished, join_snapshot,
                  lock_order, pop_order >>
  /\ PoolFrame

\* wake_up_signal.notify_all()
DtorNotify ==
  /\ pc[Main] = "d_notify"
  /\ wake_up_signal' = NotifyAll(wake_up_signal)
  /\ pc' = [pc EXCEPT ![Main] = "d_join"]
  /\ UNCHANGED << n_worker_threads, stop_signal, task_queue,
                  currently_executing_tasks, queue_mutex, wake_up_mutex,
                  task, inline_stack, in_dtor, n_joined, n_submitted,
                  enqueued, started, run_order, finished, join_snapshot,
                  lock_order, pop_order >>
  /\ PoolFrame

\* for (auto &t : worker_threads) t.join();
DtorJoinThread ==
  /\ pc[Main] = "d_join"
  /\ n_joined < n_worker_threads
  /\ pc[n_joined + 1] = "exit"
  /\ n_joined' = n_joined + 1
  /\ UNCHANGED << n_worker_threads, stop_signal, task_queue,
                  currently_executing_tasks, queue_mutex, wake_up_mutex,
                  wake_up_signal, pc, task, inline_stack, in_dtor,
                  n_submitted, enqueued, started, run_order, finished,
                  join_snapshot,
                  lock_order, pop_order >>
  /\ PoolFrame

DtorReturn ==
  /\ pc[Main] = "d_join"
  /\ n_joined = n_worker_threads
  /\ pc' = [pc EXCEPT ![Main] = "m_done"]
  /\ UNCHANGED << n_worker_threads, stop_signal, task_queue,
                  currently_executing_tasks, queue_mutex, wake_up_mutex,
                  wake_up_signal, task, inline_stack, in_dtor, n_joined,
                  n_submitted, enqueued, started, run_order, finished,
                  join_snapshot,
                  lock_order, pop_order >>
  /\ PoolFrame

----------------------------------------------------------------------------
(* ThreadPool::worker_thread *)

\* ++currently_executing_tasks / --currently_executing_tasks (unsigned int)
\* a worker that takes a task without counting it
IncrementExecuting_Forgotten(executing) == executing

IncrementExecuting(executing) ==
  IF executing = UIntMax THEN 0 ELSE executing + 1
\* a worker that forgets the decrement
DecrementExecuting_Forgotten(executing) == executing

DecrementExecuting(executing) ==
  IF executing = 0 THEN UIntMax ELSE executing - 1

\* std::lock_guard<std::mutex> lock(queue_mutex) at the top of the loop
WorkerLock(w) ==
  /\ pc[w] = "lock"
  /\ CanLock(queue_mutex)
  /\ queue_mutex' = w
  /\ pc' = [pc EXCEPT ![w] = "check"]
  /\ UNCHANGED << n_worker_threads, stop_signal, task_queue,
                  currently_executing_tasks, wake_up_mutex, wake_up_signal,
                  task, inline_stack, in_dtor, n_joined, n_submitted,
                  enqueued, started, run_order, finished, join_snapshot,
                  lock_order, pop_order >>
  /\ PoolFrame

\* a worker that reads front() and leaves the task in the queue
WorkerCheck_NoPop(w) ==
  /\ pc[w] = "check"
  /\ queue_mutex' = NoThread
  /\ IF stop_signal
       THEN /\ pc' = [pc EXCEPT ![w] = "exit"]
            /\ UNCHANGED << task_queue, currently_executing_tasks, task,
                            started, pop_order >>
       ELSE IF Len(task_queue) > 0
         THEN /\ task' = [task EXCEPT ![w] = Head(task_queue).second]
              /\ task_queue' = task_queue
              /\ currently_executing_tasks' =
                   IncrementExecuting(currently_executing_tasks)
              /\ started' = started \cup {Head(task_queue).second}
              /\ pop_order' = Append(pop_order, Head(task_queue).second)
              /\ pc' = [pc EXCEPT ![w] = "run"]
         ELSE /\ pc' = [pc EXCEPT ![w] = "idle"]
              /\ UNCHANGED << task_queue, currently_executing_tasks, task,
                              started, pop_order >>
  /\ UNCHANGED << n_worker_threads, stop_signal, wake_up_mutex,
                  wake_up_signal, inline_stack, in_dtor, n_joined,
                  n_submitted, enqueued, finished, join_snapshot,
                  lock_order, run_order >>
  /\ PoolFrame

\* a worker that ends its thread when it finds no work
WorkerCheck_ExitsWhenIdle(w) ==
  /\ pc[w] = "check"
  /\ queue_mutex' = NoThread
  /\ IF stop_signal
       THEN /\ pc' = [pc EXCEPT ![w] = "exit"]
            /\ UNCHANGED << task_queue, currently_executing_tasks, task,
                            started, pop_order >>
       ELSE IF Len(task_queue) > 0
         THEN /\ task' = [task EXCEPT ![w] = Head(task_queue).second]
              /\ task_queue' = Tail(task_queue)
              /\ currently_executing_tasks' =
                   IncrementExecuting(currently_executing_tasks)
              /\ started' = started \cup {Head(task_queue).second}
              /\ pop_order' = Append(pop_order, Head(task_queue).second)
              /\ pc' = [pc EXCEPT ![w] = "run"]
         ELSE /\ pc' = [pc EXCEPT ![w] = "exit"]
              /\ UNCHANGED << task_queue, currently_executing_tasks, task,
                              started, pop_order >>
  /\ UNCHANGED << n_worker_threads, stop_signal, wake_up_mutex,
                  wake_up_signal, inline_stack, in_dtor, n_joined,
                  n_submitted, enqueued, finished, join_snapshot,
                  lock_order, run_order >>
  /\ PoolFrame

\* under the lock: return if stop_signal is set; otherwise take the oldest
\* task out of the queue, if there is one; give back the lock
WorkerCheck(w) ==
  /\ pc[w] = "check"
  /\ queue_mutex' = NoThread
  /\ IF stop_signal
       THEN /\ pc' = [pc EXCEPT ![w] = "exit"]
            /\ UNCHANGED << task_queue, currently_executing_tasks, task,
                            started, pop_order >>
       ELSE IF Len(task_queue) > 0
         THEN /\ task' = [task EXCEPT ![w] = Head(task_queue).second]
              /\ task_queue' = Tail(task_queue)
              /\ currently_executing_tasks' =
                   IncrementExecuting(currently_executing_tasks)
              /\ started' = started \cup {Head(task_queue).second}
              /\ pop_order' = Append(pop_order, Head(task_queue).second)
              /\ pc' = [pc EXCEPT ![w] = "run"]
         ELSE /\ pc' = [pc EXCEPT ![w] = "idle"]
              /\ UNCHANGED << task_queue, currently_executing_tasks, task,
                              started, pop_order >>
  /\ UNCHANGED << n_worker_threads, stop_signal, wake_up_mutex,
                  wake_up_signal, inline_stack, in_dtor, n_joined,
                  n_submitted, enqueued, finished, join_snapshot,
                  lock_order, run_order >>
  /\ PoolFrame

\* task(): a leaf runs to completion; a parent calls enqueue_task
WorkerRun(w) ==
  /\ pc[w] = "run"
  /\ IF task[w].parent
       THEN /\ pc' = [pc EXCEPT ![w] = "e_lock"]
            /\ UNCHANGED finished
       ELSE /\ pc' = [pc EXCEPT ![w] = "dec_lock"]
            /\ finished' = finished \cup {task[w]}
  /\ run_order' = Append(run_order, task[w])
  /\ UNCHANGED << n_worker_threads, stop_signal, task_queue,
                  currently_executing_tasks, queue_mutex, wake_up_mutex,
                  wake_up_signal, task, inline_stack, in_dtor, n_joined,
                  n_submitted, enqueued, started, join_snapshot,
                  lock_order, pop_order >>
  /\ PoolFrame

\* a worker that catches what the task throws and carries on
WorkerThrow_Swallowed(w) ==
  /\ pc[w] = "run"
  /\ pc' = [pc EXCEPT ![w] = "dec_lock"]
  /\ run_order' = Append(run_order, task[w])
  /\ UNCHANGED << n_worker_threads, stop_signal, task_queue,
                  currently_executing_tasks, queue_mutex, wake_up_mutex,
                  wake_up_signal, task, inline_stack, in_dtor, n_joined,
                  n_submitted, enqueued, started, finished, join_snapshot,
                  lock_order, pop_order >>
  /\ PoolFrame

\* task() throws: worker_thread has no handler, the exception leaves the
\* thread function and std::terminate ends the process with all its threads
WorkerThrow(w) ==
  /\ pc[w] = "run"
  /\ pc' = [th \in DOMAIN pc |-> IF th = w THEN "threw" ELSE "aborted"]
  /\ run_order' = Append(run_order, task[w])
  /\ UNCHANGED << n_worker_threads, stop_signal, task_queue,
                  currently_executing_tasks, queue_mutex, wake_up_mutex,
                  wake_up_signal, task, inline_stack, in_dtor, n_joined,
                  n_submitted, enqueued, started, finished, join_snapshot,
                  lock_order, pop_order >>
  /\ PoolFrame

\* std::lock_guard<std::mutex> lock(queue_mutex) after the task
WorkerDecLock(w) ==
  /\ pc[w] = "dec_lock"
  /\ CanLock(queue_mutex)
  /\ queue_mutex' = w
  /\ pc' = [pc EXCEPT ![w] = "dec"]
  /\ UNCHANGED << n_worker_threads, stop_signal, task_queue,
                  currently_executing_tasks, wake_up_mutex, wake_up_signal,
                  task, inline_stack, in_dtor, n_joined, n_submitted,
                  enqueued, started, run_order, finished, join_snapshot,
                  lock_order, pop_order >>
  /\ PoolFrame

\* --currently_executing_tasks; the lock is given back and the loop body
\* (with its local 'task') ends
WorkerDec(w) ==
  /\ pc[w] = "dec"
  /\ currently_executing_tasks' =
       DecrementExecuting(currently_executing_tasks)
  /\ queue_mutex' = NoThread
  /\ task' = [task EXCEPT ![w] = NoTask]
  /\ pc' = [pc EXCEPT ![w] = "lock"]
  /\ UNCHANGED << n_worker_threads, stop_signal, task_queue,
                  wake_up_mutex, wake_up_signal, inline_stack, in_dtor,
                  n_joined, n_submitted, enqueued, started, run_order, finished,
                  join_snapshot,
                  lock_order, pop_order >>
  /\ PoolFrame

\* there was no work: std::unique_lock<std::mutex> lock(wake_up_mutex)
WorkerIdle(w) ==
  /\ pc[w] = "idle"
  /\ CanLock(wake_up_mutex)
  /\ wake_up_mutex' = w
  /\ pc' = [pc EXCEPT ![w] = "wait"]
  /\ UNCHANGED << n_worker_threads, stop_signal, task_queue,
                  currently_executing_tasks, queue_mutex, wake_up_signal,
                  task, inline_stack, in_dtor, n_joined, n_submitted,
                  enqueued, started, run_order, finished, join_snapshot,
                  lock_order, pop_order >>
  /\ PoolFrame

\* wake_up_signal.wait(lock): atomically gives back wake_up_mutex and
\* blocks on the condition variable
WorkerWait(w) ==
  /\ pc[w] = "wait"
  /\ wake_up_mutex' = NoThread
  /\ wake_up_signal' = wake_up_signal \cup {w}
  /\ pc' = [pc EXCEPT ![w] = "waiting"]
  /\ UNCHANGED << n_worker_threads, stop_signal, task_queue,
                  currently_executing_tasks, queue_mutex, task,
                  inline_stack, in_dtor, n_joined, n_submitted, enqueued,
                  started, run_order, finished, join_snapshot,
                  lock_order, pop_order >>
  /\ PoolFrame

\* a thread that was woken takes wake_up_mutex again before wait() returns
WorkerWake(w) ==
  /\ pc[w] = "waiting"
  /\ w \notin wake_up_signal
  /\ CanLock(wake_up_mutex)
  /\ wake_up_mutex' = w
  /\ pc' = [pc EXCEPT ![w] = "woken"]
  /\ UNCHANGED << n_worker_threads, stop_signal, task_queue,
                  currently_executing_tasks, queue_mutex, wake_up_signal,
                  task, inline_stack, in_dtor, n_joined, n_submitted,
                  enqueued, started, run_order, finished, join_snapshot,
                  lock_order, pop_order >>
  /\ PoolFrame

\* wait() has returned; the unique_lock goes out of scope, next iteration
WorkerWoken(w) ==
  /\ pc[w] = "woken"
  /\ wake_up_mutex' = NoThread
  /\ pc' = [pc EXCEPT ![w] = "lock"]
  /\ UNCHANGED << n_worker_threads, stop_signal, task_queue,
                  currently_executing_tasks, queue_mutex, wake_up_signal,
                  task, inline_stack, in_dtor, n_joined, n_submitted,
                  enqueued, started, run_order, finished, join_snapshot,
                  lock_order, pop_order >>
  /\ PoolFrame

\* std::condition_variable::wait may return without any notification
SpuriousWake(w) ==
  /\ pc[w] = "waiting"
  /\ w \in wake_up_signal
  /\ wake_up_signal' = wake_up_signal \ {w}
  /\ UNCHANGED << n_worker_threads, stop_signal, task_queue,
                  currently_executing_tasks, queue_mutex, wake_up_mutex,
                  pc, task, inline_stack, in_dtor, n_joined, n_submitted,
                  enqueued, started, run_order, finished, join_snapshot,
                  lock_order, pop_order >>
  /\ PoolFrame

----------------------------------------------------------------------------
(* The thread pool with its owner thread and its workers *)

NextPool ==
  \/ \E parent \in BOOLEAN : MEnqueueTask(parent)
  \/ \E th \in 0 .. n_worker_threads : EnqLock(th)
  \/ \E th \in 0 .. n_worker_threads : EnqPush(th)
  \/ \E th \in 0 .. n_worker_threads : EnqNotify(th)
  \/ EnqInline
  \/ JoinAllCall
  \/ JoinLock
  \/ JoinCheck
  \/ JoinReturn
  \/ DtorCall
  \/ DtorLock
  \/ DtorStop
  \/ DtorNotify
  \/ DtorJoinThread
  \/ DtorReturn
  \/ \E w \in Workers : WorkerLock(w)
  \/ \E w \in Workers : WorkerCheck(w)
  \/ \E w \in Workers : WorkerRun(w)
  \/ \E w \in Workers : WorkerDecLock(w)
  \/ \E w \in Workers : WorkerDec(w)
  \/ \E w \in Workers : WorkerIdle(w)
  \/ \E w \in Workers : WorkerWait(w)
  \/ \E w \in Workers : WorkerWake(w)
  \/ \E w \in Workers : WorkerWoken(w)
  \/ \E w \in Workers : SpuriousWake(w)

\* a thread pool on its own
InitPoolOnly ==
  InitPool /\ NoMean /\ NoFilter /\ NoDispatch /\ NoDriver /\ NoSeq
    /\ NoScore
    /\ NoCtor
    /\ NoSetup
    /\ NoRand
    /\ NoData

SpecPool == InitPoolOnly /\ [][NextPool]_vars

TypeOKPool ==
  /\ n_worker_threads \in 0 .. MaxWorkers
  /\ stop_signal \in BOOLEAN
  /\ currently_executing_tasks \in 0 .. n_worker_threads
  /\ queue_mutex \in {NoThread} \cup (0 .. n_worker_threads)
  /\ wake_up_mutex \in {NoThread} \cup Workers
  /\ wake_up_signal \subseteq Workers
  /\ finished \subseteq started
  /\ started \subseteq AllTasks

\* Fair scheduling: every thread that can take a step infinitely often
\* eventually takes it. What the owner thread does next when it is idle is
\* up to the caller, and a spurious wake-up is never guaranteed.
MainStep ==
  \/ EnqLock(Main) \/ EnqPush(Main) \/ EnqNotify(Main) \/ EnqInline
  \/ JoinLock \/ JoinCheck \/ JoinReturn
  \/ DtorLock \/ DtorStop \/ DtorNotify \/ DtorJoinThread \/ DtorReturn

WorkerStep(w) ==
  /\ w \in Workers
  /\ \/ WorkerLock(w) \/ WorkerCheck(w) \/ WorkerRun(w)
     \/ EnqLock(w) \/ EnqPush(w) \/ EnqNotify(w)
     \/ WorkerDecLock(w) \/ WorkerDec(w)
     \/ WorkerIdle(w) \/ WorkerWait(w) \/ WorkerWake(w) \/ WorkerWoken(w)

SpecPoolFair ==
  /\ SpecPool
  /\ SF_vars(MainStep)
  /\ \A w \in 1 .. MaxWorkers : SF_vars(WorkerStep(w))

\* the same pool with tasks that may throw
NextPoolThrow ==
  \/ NextPool
  \/ \E w \in Workers : WorkerThrow(w)
  \/ InlineThrow

SpecPoolThrow == InitPoolOnly /\ [][NextPoolThrow]_vars

----------------------------------------------------------------------------
(* Properties of the thread pool *)

\* C1: on a pool with workers, join_all returns only from a check made
\* under queue_mutex that found the queue empty and no task executing, and
\* when it has returned every task whose enqueue_task call had returned
\* before join_all was called has finished.
JoinAllReturnsDrained ==
  /\ [][ (n_worker_threads >= 1 /\ pc[Main] # "j_ret" /\ pc'[Main] = "j_ret")
          => /\ queue_mutex = Main
             /\ task_queue = << >>
             /\ currently_executing_tasks = 0 ]_vars
  /\ []( (n_worker_threads >= 1 /\ pc[Main] = "j_ret")
          => join_snapshot \subseteq finished )

JoinAllReturnsDrained_Witness ==
  /\ n_worker_threads >= 1
  /\ pc[Main] = "j_ret"
  /\ Cardinality(join_snapshot) >= 2
  /\ join_snapshot \subseteq finished

\* C2: a parent task A running on a worker enqueues a child B. From the
\* start of A to the start of B there is no state in which the queue is
\* empty and no task is counted as executing, and a join_all called after
\* A was enqueued has not returned before B has finished.
ChildKeepsJoinAllWaiting ==
  /\ \A a \in started :
       (n_worker_threads >= 1 /\ a.parent /\ ChildOf(a) \notin started)
         => ~ (task_queue = << >> /\ currently_executing_tasks = 0)
  /\ (n_worker_threads >= 1 /\ pc[Main] = "j_ret")
       => \A a \in join_snapshot : a.parent => ChildOf(a) \in finished

ChildKeepsJoinAllWaiting_Witness ==
  /\ n_worker_threads >= 1
  /\ pc[Main] = "j_ret"
  /\ \E a \in join_snapshot :
       a.parent /\ ChildOf(a) \in finished /\ ChildOf(a) \notin join_snapshot

\* C3: every task passed to enqueue_task is eventually run to completion,
\* with no further enqueue_task call needed, and a join_all that was
\* called eventually returns.
EveryTaskEventuallyRuns ==
  /\ \A t \in AllTasks : (t \in enqueued) ~> (t \in finished)
  /\ (pc[Main] = "j_lock") ~> (pc[Main] = "j_ret")

\* C4: the destructor sets stop_signal only after its join_all has
\* returned: when the stop flag is set, every task whose enqueue_task call
\* returned before the destructor was entered has finished and no task is
\* left in the queue.
ShutdownDrainsFirst ==
  stop_signal =>
    /\ in_dtor /\ pc[Main] \in {"d_notify", "d_join", "m_done"}
    /\ join_snapshot \subseteq finished
    /\ enqueued \subseteq finished
    /\ task_queue = << >>
    /\ currently_executing_tasks = 0

ShutdownDrainsFirst_Witness ==
  /\ stop_signal
  /\ n_worker_threads >= 1
  /\ Cardinality(join_snapshot) >= 2
  /\ \E w \in Workers : pc[w] = "exit"

\* C5: once the destructor has set stop_signal and called notify_all,
\* every worker eventually returns and the destructor returns.
ShutdownTerminates ==
  (pc[Main] = "d_join") ~> (pc[Main] = "m_done")

\* C6: without worker threads enqueue_task has run the task to completion
\* when it returns, nothing is ever in the queue, and join_all returns
\* without waiting; so whenever the owner thread is between calls all
\* submitted tasks have completed.
NoWorkersRunsInline ==
  n_worker_threads = 0 =>
    /\ task_queue = << >>
    /\ currently_executing_tasks = 0
    /\ enqueued \subseteq finished
    /\ pc[Main] \notin {"e_lock", "e_push", "e_notify", "j_lock", "j_check"}
    /\ pc[Main] \in {"m_idle", "j_ret"} =>
         /\ started = finished
         /\ \A i \in 1 .. n_submitted : \E t \in finished : t.tid = i

NoWorkersRunsInline_Witness ==
  /\ n_worker_threads = 0
  /\ pc[Main] = "j_ret"
  /\ n_submitted = MaxTasks
  /\ \E t \in finished : t.parent /\ ChildOf(t) \in finished

\* the threads out of whose task an exception has escaped
Thrown == { th \in DOMAIN pc : pc[th] = "threw" }

\* C17: an exception that escapes a task is fatal. The worker neither
\* catches it nor goes on to another task: once it has escaped no thread
\* takes another step. The failed task is never counted as completed: the
\* counter is decremented only for tasks that ran to completion, and
\* join_all returns only when every task that was started has completed.
TaskFailureIsFatal ==
  /\ [](\A w \in Workers :
          /\ pc[w] \in {"dec_lock", "dec"} => task[w] \in finished
          /\ pc[w] = "threw" =>
               /\ task[w] \in started \ finished
               /\ currently_executing_tasks >= 1
               /\ \A th \in DOMAIN pc : th # w => pc[th] = "aborted")
  /\ []((n_worker_threads >= 1 /\ pc[Main] = "j_ret")
          => started \subseteq finished)
  /\ [](pc[Main] = "threw" =>
          /\ inline_stack # << >>
          /\ inline_stack[Len(inline_stack)].task \notin finished
          /\ inline_stack[Len(inline_stack)].task \notin enqueued)
  /\ [][Thrown = {}]_vars

TaskFailureIsFatal_Witness ==
  /\ n_worker_threads = 2
  /\ \E w \in Workers : pc[w] = "threw"
  /\ currently_executing_tasks = 2
  /\ join_snapshot # {}
  /\ task_queue # << >>

\* C20: the queue, the counter and the stop flag are read and written only
\* by the thread that holds queue_mutex; the wait uses wake_up_mutex only;
\* no thread holds both mutexes; a worker holds no mutex when it calls the
\* task and none while it is blocked in wait; enqueue_task and the
\* destructor notify after they have given back queue_mutex.
PoolLockDiscipline ==
  /\ [](\A th \in DOMAIN pc :
          /\ pc[th] \in {"e_push", "check", "dec", "j_check", "d_stop"}
               => queue_mutex = th
          /\ pc[th] \in {"wait", "woken"}
               => wake_up_mutex = th /\ queue_mutex # th
          /\ pc[th] \in {"run", "waiting"}
               => queue_mutex # th /\ wake_up_mutex # th
          /\ pc[th] \in {"e_notify", "d_notify"} => queue_mutex # th
          /\ ~ (queue_mutex = th /\ wake_up_mutex = th))
  /\ [][ ( \/ task_queue' # task_queue
           \/ currently_executing_tasks' # currently_executing_tasks
           \/ stop_signal' # stop_signal )
         => queue_mutex # NoThread /\ queue_mutex' = NoThread ]_vars

PoolLockDiscipline_Witness ==
  /\ n_worker_threads = 2
  /\ pc[Main] = "e_push" /\ queue_mutex = Main
  /\ pc[1] = "wait" /\ wake_up_mutex = 1
  /\ pc[2] = "run"

----------------------------------------------------------------------------
(* Exact arithmetic on fractions num/den, den > 0, in lowest terms *)

Abs(i) == IF i < 0 THEN -i ELSE i

RECURSIVE GCD(_, _)
GCD(a, b) == IF b = 0 THEN a ELSE GCD(b, a % b)

Frac(num, den) ==
  LET n == IF den < 0 THEN -num ELSE num
      d == Abs(den)
      g == GCD(Abs(n), d)
  IN  [num |-> n \div g, den |-> d \div g]

FracOfInt(i)     == [num |-> i, den |-> 1]
FracSub(x, y)    == Frac(x.num * y.den - y.num * x.den, x.den * y.den)
FracAdd(x, y)    == Frac(x.num * y.den + y.num * x.den, x.den * y.den)
FracDivInt(x, k) == Frac(x.num, x.den * k)
FracTimesInt(x, k) == Frac(x.num * k, x.den)

----------------------------------------------------------------------------
(* Consumers::MeanValue *)

Reader    == 0
Consumers == DOMAIN mean_pc \ {Reader}
Samples   == -1 .. MaxSample

\* the destructor of std::lock_guard gives back the mutex
Unlock(mutex, th) == IF mutex = th THEN NoThread ELSE mutex

\* 'InputType current_mean' is not initialised by the constructor: for a
\* scalar InputType its value is indeterminate until the first sample
IndeterminateMeans == { FracOfInt(0), FracOfInt(7) }

InitMean ==
  /\ mean_mutex = NoThread
  /\ current_mean \in IndeterminateMeans
  /\ n_samples = 0
  /\ \E k \in 1 .. MaxThreads :
       /\ mean_pc = [t \in 0 .. k |-> "idle"]
       /\ mean_sample = [t \in 0 .. k |-> 0]
       /\ \E m \in 1 .. MaxCalls :
            /\ n_calls = m
            /\ calls_left = [t \in 0 .. k |-> IF t = Reader THEN 0 ELSE m]
  /\ submitted_sum = 0
  /\ consumed_sum = 0
  /\ consumed_n = 0
  /\ get_result = FracOfInt(0)
  /\ get_seen = [sum |-> 0, n |-> 0]

\* an update that divides by the number of samples seen before this one
MeanUpdate_OldCount(mean, sample, n) ==
  FracAdd(mean, FracDivInt(FracSub(FracOfInt(sample), mean), n - 1))

\* update = sample; update -= current_mean; update /= n_samples;
\* current_mean += update
MeanUpdate(mean, sample, n) ==
  FracAdd(mean, FracDivInt(FracSub(FracOfInt(sample), mean), n))

\* a thread calls consume(sample, aux_data)
ConsumeCall(t, sample) ==
  /\ mean_pc[t] = "idle"
  /\ calls_left[t] > 0
  /\ calls_left' = [calls_left EXCEPT ![t] = @ - 1]
  /\ mean_sample' = [mean_sample EXCEPT ![t] = sample]
  /\ submitted_sum' = submitted_sum + sample
  /\ mean_pc' = [mean_pc EXCEPT ![t] = "c_lock"]
  /\ UNCHANGED << mean_mutex, current_mean, n_samples, n_calls,
                  consumed_sum, consumed_n, get_result, get_seen >>
  /\ MeanFrame

\* a consume that does not wait for the mutex
ConsumeLock_NoWait(t) ==
  /\ mean_pc[t] = "c_lock"
  /\ mean_mutex' = t
  /\ mean_pc' = [mean_pc EXCEPT ![t] = "c_count"]
  /\ UNCHANGED << current_mean, n_samples, mean_sample, calls_left,
                  n_calls, submitted_sum, consumed_sum, consumed_n,
                  get_result, get_seen >>
  /\ MeanFrame

\* std::lock_guard<std::mutex> lock(mutex)
ConsumeLock(t) ==
  /\ mean_pc[t] = "c_lock"
  /\ CanLock(mean_mutex)
  /\ mean_mutex' = t
  /\ mean_pc' = [mean_pc EXCEPT ![t] = "c_count"]
  /\ UNCHANGED << current_mean, n_samples, mean_sample, calls_left,
                  n_calls, submitted_sum, consumed_sum, consumed_n,
                  get_result, get_seen >>
  /\ MeanFrame

\* if (n_samples == 0) n_samples = 1; else ++n_samples;
ConsumeCount(t) ==
  /\ mean_pc[t] = "c_count"
  /\ IF n_samples = 0
       THEN /\ n_samples' = 1
            /\ mean_pc' = [mean_pc EXCEPT ![t] = "c_first"]
       ELSE /\ n_samples' = n_samples + 1
            /\ mean_pc' = [mean_pc EXCEPT ![t] = "c_update"]
  /\ UNCHANGED << mean_mutex, current_mean, mean_sample, calls_left,
                  n_calls, submitted_sum, consumed_sum, consumed_n,
                  get_result, get_seen >>
  /\ MeanFrame

\* first sample: current_mean = std::move(sample); consume returns
ConsumeFirst(t) ==
  /\ mean_pc[t] = "c_first"
  /\ current_mean' = FracOfInt(mean_sample[t])
  /\ mean_mutex' = Unlock(mean_mutex, t)
  /\ consumed_sum' = consumed_sum + mean_sample[t]
  /\ consumed_n' = consumed_n + 1
  /\ mean_pc' = [mean_pc EXCEPT ![t] = "idle"]
  /\ UNCHANGED << n_samples, mean_sample, calls_left, n_calls,
                  submitted_sum, get_result, get_seen >>
  /\ MeanFrame

\* later samples: the running update of current_mean; consume returns
ConsumeUpdate(t) ==
  /\ mean_pc[t] = "c_update"
  /\ current_mean' = MeanUpdate(current_mean, mean_sample[t], n_samples)
  /\ mean_mutex' = Unlock(mean_mutex, t)
  /\ consumed_sum' = consumed_sum + mean_sample[t]
  /\ consumed_n' = consumed_n + 1
  /\ mean_pc' = [mean_pc EXCEPT ![t] = "idle"]
  /\ UNCHANGED << n_samples, mean_sample, calls_left, n_calls,
                  submitted_sum, get_result, get_seen >>
  /\ MeanFrame

\* the reader calls get()
GetCall ==
  /\ mean_pc[Reader] = "idle"
  /\ mean_pc' = [mean_pc EXCEPT ![Reader] = "g_lock"]
  /\ UNCHANGED << mean_mutex, current_mean, n_samples, mean_sample,
                  calls_left, n_calls, submitted_sum, consumed_sum,
                  consumed_n, get_result, get_seen >>
  /\ MeanFrame

\* a get that reads without taking the mutex
GetLock_NoLock ==
  /\ mean_pc[Reader] = "g_lock"
  /\ get_seen' = [sum |-> consumed_sum, n |-> consumed_n]
  /\ mean_pc' = [mean_pc EXCEPT ![Reader] = "g_read"]
  /\ UNCHANGED << mean_mutex, current_mean, n_samples, mean_sample,
                  calls_left, n_calls, submitted_sum, consumed_sum,
                  consumed_n, get_result >>
  /\ MeanFrame

\* std::lock_guard<std::mutex> lock(mutex)
GetLock ==
  /\ mean_pc[Reader] = "g_lock"
  /\ CanLock(mean_mutex)
  /\ mean_mutex' = Reader
  /\ get_seen' = [sum |-> consumed_sum, n |-> consumed_n]
  /\ mean_pc' = [mean_pc EXCEPT ![Reader] = "g_read"]
  /\ UNCHANGED << current_mean, n_samples, mean_sample, calls_left,
                  n_calls, submitted_sum, consumed_sum, consumed_n,
                  get_result >>
  /\ MeanFrame

\* return current_mean;
GetRead ==
  /\ mean_pc[Reader] = "g_read"
  /\ get_result' = current_mean
  /\ mean_mutex' = Unlock(mean_mutex, Reader)
  /\ mean_pc' = [mean_pc EXCEPT ![Reader] = "g_ret"]
  /\ UNCHANGED << current_mean, n_samples, mean_sample, calls_left,
                  n_calls, submitted_sum, consumed_sum, consumed_n,
                  get_seen >>
  /\ MeanFrame

\* the caller of get() has the value
GetReturn ==
  /\ mean_pc[Reader] = "g_ret"
  /\ mean_pc' = [mean_pc EXCEPT ![Reader] = "idle"]
  /\ UNCHANGED << mean_mutex, current_mean, n_samples, mean_sample,
                  calls_left, n_calls, submitted_sum, consumed_sum,
                  consumed_n, get_result, get_seen >>
  /\ MeanFrame

NextMean ==
  \/ \E t \in Consumers, sample \in Samples : ConsumeCall(t, sample)
  \/ \E t \in Consumers : ConsumeLock(t)
  \/ \E t \in Consumers : ConsumeCount(t)
  \/ \E t \in Consumers : ConsumeFirst(t)
  \/ \E t \in Consumers : ConsumeUpdate(t)
  \/ GetCall
  \/ GetLock
  \/ GetRead
  \/ GetReturn

\* a MeanValue on its own
InitMeanOnly ==
  InitMean /\ NoPool /\ NoFilter /\ NoDispatch /\ NoDriver /\ NoSeq
    /\ NoScore
    /\ NoCtor
    /\ NoSetup
    /\ NoRand
    /\ NoData

SpecMean == InitMeanOnly /\ [][NextMean]_vars

----------------------------------------------------------------------------
(* Properties of MeanValue *)

AllConsumed ==
  \A t \in Consumers : mean_pc[t] = "idle" /\ calls_left[t] = 0

\* C7: when K threads have each called consume M times and all calls have
\* returned, n_samples is K*M and current_mean is the sum of all K*M
\* samples divided by K*M, whatever the interleaving.
NoUpdateLost ==
  AllConsumed =>
    /\ n_samples = Cardinality(Consumers) * n_calls
    /\ FracTimesInt(current_mean, Cardinality(Consumers) * n_calls)
         = FracOfInt(submitted_sum)

NoUpdateLost_Witness ==
  /\ AllConsumed
  /\ Cardinality(Consumers) = MaxThreads
  /\ n_calls = MaxCalls
  /\ n_samples = MaxThreads * MaxCalls
  /\ current_mean.den > 1

\* C8: after every consume, n_samples * current_mean is the sum of the
\* samples consumed so far (for N >= 1 samples, in any order).
RunningMeanIsBatchMean ==
  (mean_mutex = NoThread /\ n_samples >= 1) =>
    /\ n_samples = consumed_n
    /\ FracTimesInt(current_mean, n_samples) = FracOfInt(consumed_sum)

RunningMeanIsBatchMean_Witness ==
  /\ mean_mutex = NoThread
  /\ n_samples = 3
  /\ consumed_sum = 1
  /\ current_mean = [num |-> 1, den |-> 3]

\* C9: the value get() returns is the mean of exactly the samples whose
\* consume had left its critical section when get() took the mutex: it is
\* never read while n_samples is already incremented and current_mean not
\* yet updated. (With no sample yet there is no mean.)
GetIsConsistent ==
  /\ mean_pc[Reader] = "g_read" =>
       /\ n_samples = get_seen.n
       /\ \A t \in Consumers : mean_pc[t] \notin {"c_first", "c_update"}
  /\ (mean_pc[Reader] = "g_ret" /\ get_seen.n >= 1) =>
       FracTimesInt(get_result, get_seen.n) = FracOfInt(get_seen.sum)

GetIsConsistent_Witness ==
  /\ mean_pc[Reader] = "g_ret"
  /\ get_seen.n = 2
  /\ get_result.den = 2
  /\ \E t \in Consumers : mean_pc[t] = "c_lock"

----------------------------------------------------------------------------
(* Filters::TakeNEveryM *)

FilterThreads == DOMAIN filter_pc

\* TakeNEveryM(every_mth, n): counter(0), every_mth(every_mth), n_samples(n)
InitFilter ==
  /\ filter_mutex = NoThread
  /\ counter = 0
  /\ every_mth \in 0 .. MaxEvery
  /\ filter_n_samples \in 0 .. MaxTake
  /\ \E k \in 1 .. MaxFilterThreads :
       /\ filter_pc = [t \in 1 .. k |-> "idle"]
       /\ my_counter = [t \in 1 .. k |-> 0]
       /\ arrival = [t \in 1 .. k |-> 0]
  /\ n_arrived = 0
  /\ forwarded = {}
  /\ dropped = {}

\* a decision that also takes the sample after the n-th
ForwardDecisions_OneMore(k, m, n) ==
  IF m = 0 THEN BOOLEAN ELSE { k % m <= n }

\* a decision with every_mth and n_samples exchanged
ForwardDecisions_Swapped(k, m, n) ==
  IF n = 0 THEN BOOLEAN ELSE { k % n < m }

\* the decision the documentation of filter() describes: k mod n = 0
ForwardDecisions_EveryNth(k, m, n) ==
  IF n = 0 THEN BOOLEAN ELSE { k % n = 0 }

\* 'my_counter % every_mth < n_samples': TRUE means the sample is
\* returned, FALSE that an empty object is returned. The remainder of a
\* division by zero is undefined: either outcome may result.
ForwardDecisions(k, m, n) ==
  IF m = 0 THEN BOOLEAN ELSE { k % m < n }

\* a thread calls filter(sample, aux_data)
FilterCall(t) ==
  /\ filter_pc[t] = "idle"
  /\ n_arrived + Cardinality({u \in FilterThreads : filter_pc[u] = "f_lock"})
       < (IF every_mth = 0 THEN MaxInputsZero ELSE MaxInputs)
  /\ filter_pc' = [filter_pc EXCEPT ![t] = "f_lock"]
  /\ UNCHANGED << filter_mutex, counter, every_mth, filter_n_samples,
                  my_counter, n_arrived, arrival, forwarded, dropped >>
  /\ FilterFrame

\* a filter that does not wait for the mutex
FilterLock_NoWait(t) ==
  /\ filter_pc[t] = "f_lock"
  /\ filter_mutex' = t
  /\ arrival' = [arrival EXCEPT ![t] = n_arrived]
  /\ n_arrived' = n_arrived + 1
  /\ filter_pc' = [filter_pc EXCEPT ![t] = "f_read"]
  /\ UNCHANGED << counter, every_mth, filter_n_samples, my_counter,
                  forwarded, dropped >>
  /\ FilterFrame

\* std::lock_guard<std::mutex> lock(mutex): the samples arrive in the
\* order in which their calls take the mutex
FilterLock(t) ==
  /\ filter_pc[t] = "f_lock"
  /\ CanLock(filter_mutex)
  /\ filter_mutex' = t
  /\ arrival' = [arrival EXCEPT ![t] = n_arrived]
  /\ n_arrived' = n_arrived + 1
  /\ filter_pc' = [filter_pc EXCEPT ![t] = "f_read"]
  /\ UNCHANGED << counter, every_mth, filter_n_samples, my_counter,
                  forwarded, dropped >>
  /\ FilterFrame

\* a filter that reads the counter after the increment
FilterRead_AfterIncrement(t) ==
  /\ filter_pc[t] = "f_read"
  /\ my_counter' = [my_counter EXCEPT ![t] = counter + 1]
  /\ filter_pc' = [filter_pc EXCEPT ![t] = "f_count"]
  /\ UNCHANGED << filter_mutex, counter, every_mth, filter_n_samples,
                  n_arrived, arrival, forwarded, dropped >>
  /\ FilterFrame

\* my_counter = counter;
FilterRead(t) ==
  /\ filter_pc[t] = "f_read"
  /\ my_counter' = [my_counter EXCEPT ![t] = counter]
  /\ filter_pc' = [filter_pc EXCEPT ![t] = "f_count"]
  /\ UNCHANGED << filter_mutex, counter, every_mth, filter_n_samples,
                  n_arrived, arrival, forwarded, dropped >>
  /\ FilterFrame

\* a filter whose lock lives until the function returns
FilterCount_KeepsLock(t) ==
  /\ filter_pc[t] = "f_count"
  /\ counter' = counter + 1
  /\ filter_pc' = [filter_pc EXCEPT ![t] = "f_decide"]
  /\ UNCHANGED << filter_mutex, every_mth, filter_n_samples, my_counter,
                  n_arrived, arrival, forwarded, dropped >>
  /\ FilterFrame

\* ++counter; the lock is given back
FilterCount(t) ==
  /\ filter_pc[t] = "f_count"
  /\ counter' = counter + 1
  /\ filter_mutex' = Unlock(filter_mutex, t)
  /\ filter_pc' = [filter_pc EXCEPT ![t] = "f_decide"]
  /\ UNCHANGED << every_mth, filter_n_samples, my_counter, n_arrived,
                  arrival, forwarded, dropped >>
  /\ FilterFrame

\* if (my_counter % every_mth < n_samples) return the sample; else return
\* an empty object
FilterDecide(t) ==
  /\ filter_pc[t] = "f_decide"
  /\ \E forward \in ForwardDecisions(my_counter[t], every_mth,
                                      filter_n_samples) :
       IF forward
         THEN forwarded' = forwarded \cup {arrival[t]} /\ UNCHANGED dropped
         ELSE dropped' = dropped \cup {arrival[t]} /\ UNCHANGED forwarded
  /\ filter_pc' = [filter_pc EXCEPT ![t] = "idle"]
  /\ UNCHANGED << filter_mutex, counter, every_mth, filter_n_samples,
                  my_counter, n_arrived, arrival >>
  /\ FilterFrame

NextFilter ==
  \/ \E t \in FilterThreads : FilterCall(t)
  \/ \E t \in FilterThreads : FilterLock(t)
  \/ \E t \in FilterThreads : FilterRead(t)
  \/ \E t \in FilterThreads : FilterCount(t)
  \/ \E t \in FilterThreads : FilterDecide(t)

\* a TakeNEveryM on its own
InitFilterOnly ==
  InitFilter /\ NoPool /\ NoMean /\ NoDispatch /\ NoDriver /\ NoSeq
    /\ NoScore
    /\ NoCtor
    /\ NoSetup
    /\ NoRand
    /\ NoData

SpecFilter == InitFilterOnly /\ [][NextFilter]_vars

----------------------------------------------------------------------------
(* Properties of TakeNEveryM *)

AllFiltered == \A t \in FilterThreads : filter_pc[t] = "idle"

\* C10: for every_mth >= 1 the sample that arrives as the k-th input
\* (k counted from 0) is forwarded if (k mod every_mth) < n and dropped
\* otherwise; with every_mth = 5, n = 2 and 15 inputs exactly the inputs
\* 0, 1, 5, 6, 10, 11 are forwarded.
TakesNEveryM ==
  every_mth >= 1 =>
    /\ \A k \in forwarded : k % every_mth < filter_n_samples
    /\ \A k \in dropped : ~ (k % every_mth < filter_n_samples)
    /\ AllFiltered => forwarded \cup dropped = 0 .. (n_arrived - 1)
    /\ ( AllFiltered /\ every_mth = 5 /\ filter_n_samples = 2
         /\ n_arrived = 15 ) => forwarded = {0, 1, 5, 6, 10, 11}

TakesNEveryM_Witness ==
  /\ every_mth = 5
  /\ filter_n_samples = 2
  /\ n_arrived = 15
  /\ AllFiltered
  /\ Cardinality(FilterThreads) = 2
  /\ forwarded = {0, 1, 5, 6, 10, 11}
  /\ dropped = {2, 3, 4, 7, 8, 9, 12, 13, 14}

----------------------------------------------------------------------------
(* Subscribers (MeanValue, TakeNEveryM, ComponentPairSplitter) attached to *)
(* one producer: dispatch of emitted samples, and teardown                 *)

Subscribers == DOMAIN sub_class
Emitters    == DOMAIN emit_pc

SubscriberClasses == { "MeanValue", "TakeNEveryM", "ComponentPairSplitter" }

\* the subscribers have been constructed and connected to the producer;
\* nothing has been emitted yet
InitDispatch ==
  /\ \E k \in 1 .. MaxSubscribers :
       /\ sub_class \in [1 .. k -> SubscriberClasses]
       /\ sub_mode \in [1 .. k -> {"synchronous", "asynchronous"}]
       /\ registered = 1 .. k
       /\ private_lock = [s \in 1 .. k |-> NoThread]
       /\ pending = [s \in 1 .. k |-> 0]
       /\ running = [s \in 1 .. k |-> 0]
       /\ sub_state = [s \in 1 .. k |-> "alive"]
  /\ \E n \in 1 .. MaxEmitters :
       /\ emit_pc = [e \in 1 .. n |-> "idle"]
       /\ emit_todo = [e \in 1 .. n |-> {}]
       /\ emit_cur = [e \in 1 .. n |-> 0]
  /\ emits_left = MaxEmits

\* the dispatches delivered to subscriber s that have not completed
InProgress(s) ==
  { e \in Emitters : emit_cur[e] = s /\ emit_pc[e] = "s_process" }
InFlight(s) ==
  pending[s] + running[s]
    + Cardinality({ e \in Emitters : emit_cur[e] = s })

\* emit(producer, sample, aux): for every registered subscriber ...
EmitCall(e) ==
  /\ emit_pc[e] = "idle"
  /\ emits_left > 0
  /\ emits_left' = emits_left - 1
  /\ emit_todo' = [emit_todo EXCEPT ![e] = registered]
  /\ emit_pc' = [emit_pc EXCEPT ![e] = "e_loop"]
  /\ UNCHANGED << sub_class, sub_mode, registered, private_lock, pending,
                  running, sub_state, emit_cur >>
  /\ DispatchFrame

\* ... dispatch according to the subscriber's ParallelMode: a synchronous
\* subscriber is called by the emitting thread, for an asynchronous one a
\* task is handed to the thread pool and emit goes on. A subscriber that
\* has been detached in the meantime gets nothing.
EmitDeliver(e, s) ==
  /\ emit_pc[e] = "e_loop"
  /\ s \in emit_todo[e]
  /\ emit_todo' = [emit_todo EXCEPT ![e] = @ \ {s}]
  /\ IF s \notin registered
       THEN UNCHANGED << pending, emit_cur, emit_pc >>
       ELSE IF sub_mode[s] = "synchronous"
         THEN /\ emit_cur' = [emit_cur EXCEPT ![e] = s]
              /\ emit_pc' = [emit_pc EXCEPT ![e] = "s_lock"]
              /\ UNCHANGED pending
         ELSE /\ pending' = [pending EXCEPT ![s] = @ + 1]
              /\ UNCHANGED << emit_cur, emit_pc >>
  /\ UNCHANGED << sub_class, sub_mode, registered, private_lock, running,
                  sub_state, emits_left >>
  /\ DispatchFrame

\* all subscribers have been served: emit returns
EmitReturn(e) ==
  /\ emit_pc[e] = "e_loop"
  /\ emit_todo[e] = {}
  /\ emit_pc' = [emit_pc EXCEPT ![e] = "idle"]
  /\ UNCHANGED << sub_class, sub_mode, registered, private_lock, pending,
                  running, sub_state, emit_todo, emit_cur, emits_left >>
  /\ DispatchFrame

\* a dispatch that enters the processing step without the private lock
SyncLock_NoWait(e) ==
  /\ emit_pc[e] = "s_lock"
  /\ private_lock' = [private_lock EXCEPT ![emit_cur[e]] = e]
  /\ emit_pc' = [emit_pc EXCEPT ![e] = "s_process"]
  /\ UNCHANGED << sub_class, sub_mode, registered, pending, running,
                  sub_state, emit_todo, emit_cur, emits_left >>
  /\ DispatchFrame

\* synchronous-only: acquire the subscriber's private lock, ...
SyncLock(e) ==
  /\ emit_pc[e] = "s_lock"
  /\ CanLock(private_lock[emit_cur[e]])
  /\ private_lock' = [private_lock EXCEPT ![emit_cur[e]] = e]
  /\ emit_pc' = [emit_pc EXCEPT ![e] = "s_process"]
  /\ UNCHANGED << sub_class, sub_mode, registered, pending, running,
                  sub_state, emit_todo, emit_cur, emits_left >>
  /\ DispatchFrame

\* ... invoke its processing step while holding it, release
SyncProcess(e) ==
  /\ emit_pc[e] = "s_process"
  /\ private_lock' = [private_lock EXCEPT ![emit_cur[e]] = Unlock(@, e)]
  /\ emit_cur' = [emit_cur EXCEPT ![e] = 0]
  /\ emit_pc' = [emit_pc EXCEPT ![e] = "e_loop"]
  /\ UNCHANGED << sub_class, sub_mode, registered, pending, running,
                  sub_state, emit_todo, emits_left >>
  /\ DispatchFrame

\* a worker of the thread pool starts the processing step of an offloaded
\* dispatch
OffloadStart(s) ==
  /\ pending[s] > 0
  /\ pending' = [pending EXCEPT ![s] = @ - 1]
  /\ running' = [running EXCEPT ![s] = @ + 1]
  /\ UNCHANGED << sub_class, sub_mode, registered, private_lock, sub_state,
                  emit_pc, emit_todo, emit_cur, emits_left >>
  /\ DispatchFrame

\* the processing step of an offloaded dispatch returns
OffloadEnd(s) ==
  /\ running[s] > 0
  /\ running' = [running EXCEPT ![s] = @ - 1]
  /\ UNCHANGED << sub_class, sub_mode, registered, private_lock, pending,
                  sub_state, emit_pc, emit_todo, emit_cur, emits_left >>
  /\ DispatchFrame

\* a destructor with an empty body: the members are released at once
MeanValueDtor_Empty == "release"

\* ~MeanValue, ~TakeNEveryM, ~ComponentPairSplitter: the body is the one
\* statement 'this->disconnect_and_flush();', the members are released
\* after the body
MeanValueDtor             == "detach"
TakeNEveryMDtor           == "detach"
ComponentPairSplitterDtor == "detach"

DtorOf(class) ==
  CASE class = "MeanValue"             -> MeanValueDtor
    [] class = "TakeNEveryM"           -> TakeNEveryMDtor
    [] class = "ComponentPairSplitter" -> ComponentPairSplitterDtor

\* the destructor of subscriber s is entered
SubscriberDtor(s) ==
  /\ sub_state[s] = "alive"
  /\ sub_state' = [sub_state EXCEPT ![s] = DtorOf(sub_class[s])]
  /\ UNCHANGED << sub_class, sub_mode, registered, private_lock, pending,
                  running, emit_pc, emit_todo, emit_cur, emits_left >>
  /\ DispatchFrame

\* disconnect_and_flush (a): detach from every producer
DisconnectDetach(s) ==
  /\ sub_state[s] = "detach"
  /\ registered' = registered \ {s}
  /\ sub_state' = [sub_state EXCEPT ![s] = "flush"]
  /\ UNCHANGED << sub_class, sub_mode, private_lock, pending, running,
                  emit_pc, emit_todo, emit_cur, emits_left >>
  /\ DispatchFrame

\* disconnect_and_flush (b): block until every dispatch already delivered
\* has completed, then return
DisconnectFlush(s) ==
  /\ sub_state[s] = "flush"
  /\ InFlight(s) = 0
  /\ sub_state' = [sub_state EXCEPT ![s] = "release"]
  /\ UNCHANGED << sub_class, sub_mode, registered, private_lock, pending,
                  running, emit_pc, emit_todo, emit_cur, emits_left >>
  /\ DispatchFrame

\* the destructor body is done: the members of the subscriber are released
SubscriberRelease(s) ==
  /\ sub_state[s] = "release"
  /\ sub_state' = [sub_state EXCEPT ![s] = "destroyed"]
  /\ UNCHANGED << sub_class, sub_mode, registered, private_lock, pending,
                  running, emit_pc, emit_todo, emit_cur, emits_left >>
  /\ DispatchFrame

NextDispatch ==
  \/ \E e \in Emitters : EmitCall(e)
  \/ \E e \in Emitters, s \in Subscribers : EmitDeliver(e, s)
  \/ \E e \in Emitters : EmitReturn(e)
  \/ \E e \in Emitters : SyncLock(e)
  \/ \E e \in Emitters : SyncProcess(e)
  \/ \E s \in Subscribers : OffloadStart(s)
  \/ \E s \in Subscribers : OffloadEnd(s)
  \/ \E s \in Subscribers : SubscriberDtor(s)
  \/ \E s \in Subscribers : DisconnectDetach(s)
  \/ \E s \in Subscribers : DisconnectFlush(s)
  \/ \E s \in Subscribers : SubscriberRelease(s)

\* subscribers and their producer on their own
InitDispatchOnly ==
  InitDispatch /\ NoPool /\ NoMean /\ NoFilter /\ NoDriver /\ NoSeq
    /\ NoScore
    /\ NoCtor
    /\ NoSetup
    /\ NoRand
    /\ NoData

SpecDispatch == InitDispatchOnly /\ [][NextDispatch]_vars

----------------------------------------------------------------------------
(* Properties of dispatch and teardown *)

\* C11: the destructor of every subscriber class calls
\* disconnect_and_flush() before the members are released: once the state
\* of a subscriber is destroyed it is detached, no dispatch into it is
\* pending or executing, and none is delivered to it afterwards.
NoDispatchAfterTeardown ==
  /\ [](\A s \in Subscribers :
          sub_state[s] \in {"release", "destroyed"} =>
            /\ s \notin registered
            /\ pending[s] = 0
            /\ running[s] = 0
            /\ \A e \in Emitters : emit_cur[e] # s)
  /\ [][ \A s \in Subscribers :
           sub_state[s] \in {"release", "destroyed"} =>
             /\ pending'[s] = pending[s]
             /\ \A e \in Emitters : emit_cur'[e] # s ]_vars

NoDispatchAfterTeardown_Witness ==
  \E s \in Subscribers :
    /\ sub_state[s] = "destroyed"
    /\ \E e \in Emitters : emit_pc[e] = "e_loop" /\ s \in emit_todo[e]
    /\ \E t \in Subscribers : t # s /\ InFlight(t) > 0

\* C18: a synchronous-only subscriber has at most one invocation of its
\* processing step in progress at any time; invocations of different
\* subscribers may overlap.
SynchronousIsExclusive ==
  \A s \in Subscribers :
    sub_mode[s] = "synchronous" => Cardinality(InProgress(s)) <= 1

SynchronousIsExclusive_Witness ==
  \E s, t \in Subscribers :
    /\ s # t
    /\ sub_mode[s] = "synchronous" /\ sub_mode[t] = "synchronous"
    /\ Cardinality(InProgress(s)) = 1
    /\ Cardinality(InProgress(t)) = 1

----------------------------------------------------------------------------
(* The population sampler as main calls it (mcmc-laplace.cc:1291-1326):    *)
(* generations of per-chain steps handed to the thread pool                *)

Chains == 0 .. (n_chains - 1)

\* the step with task id k (1, 2, ...) advances chain ChainOf(k) in
\* generation GenerationOf(k)
ChainOf(k)      == (k - 1) % n_chains
GenerationOf(k) == (k - 1) \div n_chains

CeilDiv(a, b) == (a + b - 1) \div b

\* a call that passes the per-chain number of samples as the total
MainBudget_PerChain(per_chain, chains) == per_chain

\* '/* n_samples = */ n_samples_per_chain * n_chains'
MainBudget(per_chain, chains) == per_chain * chains

\* 'Patterns::Integer (3,100)' for "Number of chains"
MinChains == 3

\* sampler.sample(...) has been entered: each chain holds its starting
\* sample, the pool is ready, generation 0 is about to be submitted.
\* The caller is main, or a caller with any budget.
InitDriver ==
  /\ InitPool
  /\ n_chains \in MinChains .. MaxChains
  /\ \E per_chain \in 0 .. MaxPerChain :
       /\ n_samples_per_chain = per_chain
       /\ IF per_chain > 0
            THEN budget = MainBudget(per_chain, n_chains)
            ELSE budget \in 1 .. MaxBudget
  /\ generation = 0
  /\ population = [i \in Chains |-> 0]
  /\ snapshot = [i \in Chains |-> 0]
  /\ n_emitted = 0

\* the steps submitted once generation g is complete
SubmittedThrough(g) == Min(budget, (g + 1) * n_chains)

\* the step of the next chain of this generation is handed to the pool;
\* without worker threads enqueue_task runs it outright
DriverSubmit ==
  /\ pc[Main] = "m_idle"
  /\ n_submitted < SubmittedThrough(generation)
  /\ n_submitted' = n_submitted + 1
  /\ LET t == [tid |-> n_submitted + 1, parent |-> FALSE]
     IN  /\ task' = [task EXCEPT ![Main] = t]
         /\ IF RunsOnWorkers(n_worker_threads)
              THEN /\ pc' = [pc EXCEPT ![Main] = "e_lock"]
                   /\ UNCHANGED << started, run_order >>
              ELSE /\ pc' = [pc EXCEPT ![Main] = "run"]
                   /\ started' = started \cup {t}
                   /\ run_order' = Append(run_order, t)
  /\ UNCHANGED << n_worker_threads, stop_signal, task_queue,
                  currently_executing_tasks, queue_mutex, wake_up_mutex,
                  wake_up_signal, inline_stack, in_dtor, n_joined,
                  enqueued, finished, join_snapshot,
                  lock_order, pop_order >>
  /\ UNCHANGED driverVars
  /\ DriverFrame

\* step 1 and 2: the proposal is made from the population as it was at the
\* start of the generation, and scored
ChainPropose(th) ==
  /\ pc[th] = "run"
  /\ pc' = [pc EXCEPT ![th] = "accept"]
  /\ run_order' = IF th = Main THEN run_order
                                ELSE Append(run_order, task[th])
  /\ UNCHANGED << n_worker_threads, stop_signal, task_queue,
                  currently_executing_tasks, queue_mutex, wake_up_mutex,
                  wake_up_signal, task, inline_stack, in_dtor, n_joined,
                  n_submitted, enqueued, started, finished, join_snapshot,
                  lock_order, pop_order >>
  /\ UNCHANGED driverVars
  /\ DriverFrame

\* step 3: accepted or not, the chain has made its move of this generation
ChainAccept(th) ==
  /\ pc[th] = "accept"
  /\ population' = [population EXCEPT ![ChainOf(task[th].tid)] =
                      GenerationOf(task[th].tid) + 1]
  /\ pc' = [pc EXCEPT ![th] = "emit"]
  /\ UNCHANGED << n_worker_threads, stop_signal, task_queue,
                  currently_executing_tasks, queue_mutex, wake_up_mutex,
                  wake_up_signal, task, inline_stack, in_dtor, n_joined,
                  n_submitted, enqueued, started, run_order, finished,
                  join_snapshot,
                  lock_order, pop_order >>
  /\ UNCHANGED << n_chains, budget, n_samples_per_chain, generation,
                  snapshot, n_emitted >>
  /\ DriverFrame

\* step 4: the sample the chain now holds is emitted; the task returns
ChainEmit(th) ==
  /\ pc[th] = "emit"
  /\ n_emitted' = n_emitted + 1
  /\ finished' = finished \cup {task[th]}
  /\ IF th = Main
       THEN /\ pc' = [pc EXCEPT ![th] = "m_idle"]
            /\ task' = [task EXCEPT ![th] = NoTask]
            /\ enqueued' = enqueued \cup {task[th]}
       ELSE /\ pc' = [pc EXCEPT ![th] = "dec_lock"]
            /\ UNCHANGED << task, enqueued >>
  /\ UNCHANGED << n_worker_threads, stop_signal, task_queue,
                  currently_executing_tasks, queue_mutex, wake_up_mutex,
                  wake_up_signal, inline_stack, in_dtor, n_joined,
                  n_submitted, started, run_order, join_snapshot,
                  lock_order, pop_order >>
  /\ UNCHANGED << n_chains, budget, n_samples_per_chain, generation,
                  population, snapshot >>
  /\ DriverFrame

\* all steps of the generation are submitted: join_all()
DriverJoin ==
  /\ pc[Main] = "m_idle"
  /\ n_submitted = SubmittedThrough(generation)
  /\ join_snapshot' = enqueued
  /\ UNCHANGED << lock_order, pop_order >>
  /\ pc' = [pc EXCEPT ![Main] = JoinAllEntry(n_worker_threads)]
  /\ UNCHANGED << n_worker_threads, stop_signal, task_queue,
                  currently_executing_tasks, queue_mutex, wake_up_mutex,
                  wake_up_signal, task, inline_stack, in_dtor, n_joined,
                  n_submitted, enqueued, started, run_order, finished >>
  /\ UNCHANGED driverVars
  /\ DriverFrame

\* join_all has returned: the run is over when the budget is used up,
\* otherwise the next generation starts from the population as it is now
DriverNextGeneration ==
  /\ pc[Main] = "j_ret"
  /\ generation' = generation + 1
  /\ IF n_submitted = budget
       THEN /\ pc' = [pc EXCEPT ![Main] = "m_done"]
            /\ UNCHANGED snapshot
       ELSE /\ pc' = [pc EXCEPT ![Main] = "m_idle"]
            /\ snapshot' = population
  /\ UNCHANGED << n_worker_threads, stop_signal, task_queue,
                  currently_executing_tasks, queue_mutex, wake_up_mutex,
                  wake_up_signal, task, inline_stack, in_dtor, n_joined,
                  n_submitted, enqueued, started, run_order, finished,
                  join_snapshot,
                  lock_order, pop_order >>
  /\ UNCHANGED << n_chains, budget, n_samples_per_chain, population,
                  n_emitted >>
  /\ DriverFrame

NextDriver ==
  \/ DriverSubmit
  \/ EnqLock(Main)
  \/ EnqPush(Main)
  \/ EnqNotify(Main)
  \/ DriverJoin
  \/ JoinLock
  \/ JoinCheck
  \/ DriverNextGeneration
  \/ \E th \in 0 .. n_worker_threads : ChainPropose(th)
  \/ \E th \in 0 .. n_worker_threads : ChainAccept(th)
  \/ \E th \in 0 .. n_worker_threads : ChainEmit(th)
  \/ \E w \in Workers : WorkerLock(w)
  \/ \E w \in Workers : WorkerCheck(w)
  \/ \E w \in Workers : WorkerDecLock(w)
  \/ \E w \in Workers : WorkerDec(w)
  \/ \E w \in Workers : WorkerIdle(w)
  \/ \E w \in Workers : WorkerWait(w)
  \/ \E w \in Workers : WorkerWake(w)
  \/ \E w \in Workers : WorkerWoken(w)
  \/ \E w \in Workers : SpuriousWake(w)

\* the sampler with its thread pool
InitDriverOnly ==
  InitDriver /\ NoMean /\ NoFilter /\ NoDispatch /\ NoSeq /\ NoScore
    /\ NoCtor
    /\ NoSetup
    /\ NoRand
    /\ NoData

SpecDriver == InitDriverOnly /\ [][NextDriver]_vars

----------------------------------------------------------------------------
(* Properties of the sampler *)

\* the threads that are inside a chain step
Stepping == { th \in DOMAIN pc : pc[th] \in {"run", "accept", "emit"} }

\* C13: generations are fork-join phases. A chain step of generation k+1
\* has started only if every step of generation k has finished and
\* join_all has returned since; while a step of generation g runs, the
\* population read at the start of the generation holds the state every
\* chain had after generation g-1, and no chain is ahead of g+1.
GenerationsAreForkJoin ==
  /\ \A t \in started : \A k \in 1 .. (t.tid - 1) :
       GenerationOf(k) < GenerationOf(t.tid)
         => [tid |-> k, parent |-> FALSE] \in finished
  /\ \A th \in Stepping :
       /\ GenerationOf(task[th].tid) = generation
       /\ \A i \in Chains : snapshot[i] = generation
       /\ \A i \in Chains : population[i] \in {generation, generation + 1}
  /\ pc[Main] = "m_idle" =>
       \A i \in Chains : snapshot[i] = generation

GenerationsAreForkJoin_Witness ==
  /\ n_worker_threads = 2
  /\ generation = 1
  /\ Cardinality(Stepping) = 2
  /\ \E i \in Chains : population[i] = 2
  /\ \E i \in Chains : population[i] = 1

\* C15: the sampler emits exactly as many samples as its budget B says: it
\* runs ceil(B / n_chains) generations, the last one cut short; called
\* from main, n_samples_per_chain * n_chains samples are counted.
EmitsExactlyTheBudget ==
  /\ n_emitted <= budget
  /\ pc[Main] = "m_done" =>
       /\ n_emitted = budget
       /\ generation = CeilDiv(budget, n_chains)
       /\ n_samples_per_chain > 0 =>
            n_emitted = n_samples_per_chain * n_chains

EmitsExactlyTheBudget_Witness ==
  /\ pc[Main] = "m_done"
  /\ n_worker_threads = 2
  /\ budget = 4
  /\ generation = 2
  /\ n_emitted = 4

----------------------------------------------------------------------------
(* Random numbers: std::mt19937 and sampleflow/random.h *)

\* rng.min(), rng.max(): the generator of the model has a small range
RngMin == 0

\* a generator that is seeded from elsewhere (std::random_device)
MtSeed_RandomDevice(seed) == RngMin .. RngMax

\* 'std::mt19937 random_number_generator(random_seed)': the state after
\* seeding is a function of the seed
MtSeed(seed) == { seed % (RngMax + 1) }

\* rng(): the value drawn is a function of the state, and so is the next
\* state
MtValue(state) == state
MtNext(state)  == (state + 3) % (RngMax + 1)

\* uniform_real_distribution(a, b)(rng), draw being the value of rng():
\* s = 1. * (rng() - rng.min()) / (rng.max() - rng.min());
\* return s * (b - a) + a
UniformReal(a, b, draw) ==
  FracAdd(FracTimesInt(Frac(draw - RngMin, RngMax - RngMin), b - a),
          FracOfInt(a))

\* a distribution whose upper bound is inclusive, like the standard one
UniformInt_Inclusive(a, b, draw) ==
  ((draw - RngMin) % ToUnsigned(b - a + 1)) + a

\* uniform_int_distribution(a, b)(rng):
\* s = (rng() - rng.min()) % (b - a); return s + a
\* The left operand is unsigned, so the int b - a is converted to unsigned.
UniformInt(a, b, draw) == ((draw - RngMin) % ToUnsigned(b - a)) + a

----------------------------------------------------------------------------
(* The callbacks main passes to the sampler (mcmc-laplace.cc:1293-1322),   *)
(* for samples with one component                                          *)

FracMul(x, y) == Frac(x.num * y.num, x.den * y.den)
FracLess(x, y) == x.num * y.den < y.num * x.den
FracAbs(x) == [num |-> Abs(x.num), den |-> x.den]

\* ProposalGenerator::LogGaussian(log_sigma)
LogSigma == 1

\* 2.38 / std::sqrt(2 * current_sample.size()), as a fraction
Gamma == [num |-> 1, den |-> 2]

\* crossover: current_sample + gamma * (sample_a - sample_b)
Crossover(current_sample, sample_a, sample_b) ==
  FracAdd(FracMul(Gamma, FracSub(sample_a, sample_b)), current_sample)

\* LogGaussian::perturb: rnd is drawn uniformly from (-log_sigma,
\* log_sigma) and x is multiplied by exp(rnd); exp is taken to first
\* order, 1 + rnd
Perturb(x, draw) ==
  FracMul(x, FracAdd(FracOfInt(1), UniformReal(-LogSigma, LogSigma, draw)))

\* the score of a sample, or minus infinity
MinusInfinity == [inf |-> TRUE, val |-> FracOfInt(0)]
Finite(v)     == [inf |-> FALSE, val |-> v]

\* log_likelihood.log_likelihood(laplace_problem.evaluate(x))
\*   + log_prior.log_prior(x): a function of x with its maximum at 1
Posterior(x) == FracSub(FracOfInt(0), FracAbs(FracSub(x, FracOfInt(1))))

\* the lambda passed as log_likelihood
LogLikelihood(x) ==
  IF x.num <= 0 THEN MinusInfinity ELSE Finite(Posterior(x))

\* the acceptance test on the threshold u drawn from (0, 1): a better or
\* equal candidate is accepted, a worse one the more rarely the worse it is
Accepts(candidate_score, current_score, u) ==
  IF candidate_score.inf THEN FALSE
  ELSE IF current_score.inf THEN TRUE
  ELSE LET loss == FracSub(current_score.val, candidate_score.val)
       IN  \/ ~ FracLess(FracOfInt(0), loss)
           \/ FracLess(FracMul(u, FracAdd(FracOfInt(1), loss)), FracOfInt(1))

----------------------------------------------------------------------------
(* Two runs of the sampler with sequential evaluation, from the same seed, *)
(* chain count and budget                                                  *)

Runs == 1 .. 2

\* 'const unsigned int random_seed = 1U'
MainSeed == 1

\* in both runs each chain holds the starting sample 1 (all components of
\* starting_coefficients are 1.); main's generator for perturb and the
\* sampler's own generator are seeded with random_seed
InitSeq ==
  /\ random_seed \in {MainSeed} \cup (0 .. MaxSeed)
  /\ seq_chains \in MinChains .. MaxChains
  /\ seq_budget \in 1 .. MaxSeqBudget
  /\ random_number_generator \in [Runs -> MtSeed(random_seed)]
  /\ sampler_rng \in [Runs -> MtSeed(random_seed)]
  /\ current_samples =
       [r \in Runs |-> [i \in 0 .. (seq_chains - 1) |-> FracOfInt(1)]]
  /\ seq_snapshot =
       [r \in Runs |-> [i \in 0 .. (seq_chains - 1) |-> FracOfInt(1)]]
  /\ n_steps = [r \in Runs |-> 0]
  /\ emitted = [r \in Runs |-> << >>]

\* run r advances the next chain (in index order) by one step: propose
\* from the population of the generation's start, score, accept or
\* reject, emit
SeqStep(r) ==
  /\ n_steps[r] < seq_budget
  /\ LET i     == n_steps[r] % seq_chains
         d1    == MtValue(sampler_rng[r])
         d2    == MtValue(MtNext(sampler_rng[r]))
         d3    == MtValue(MtNext(MtNext(sampler_rng[r])))
         d4    == MtValue(random_number_generator[r])
         a     == UniformInt(0, seq_chains, d1)
         b     == UniformInt(0, seq_chains, d2)
         trial == Perturb(Crossover(current_samples[r][i],
                                    seq_snapshot[r][a],
                                    seq_snapshot[r][b]), d4)
         u     == UniformReal(0, 1, d3)
         kept  == IF Accepts(LogLikelihood(trial),
                             LogLikelihood(current_samples[r][i]), u)
                    THEN trial ELSE current_samples[r][i]
         moved == [current_samples[r] EXCEPT ![i] = kept]
     IN  /\ sampler_rng' = [sampler_rng EXCEPT ![r] = MtNext(MtNext(MtNext(@)))]
         /\ random_number_generator' =
              [random_number_generator EXCEPT ![r] = MtNext(@)]
         /\ current_samples' = [current_samples EXCEPT ![r] = moved]
         /\ seq_snapshot' =
              [seq_snapshot EXCEPT ![r] =
                 IF i = seq_chains - 1 THEN moved ELSE @]
         /\ emitted' = [emitted EXCEPT ![r] = Append(@, kept)]
  /\ n_steps' = [n_steps EXCEPT ![r] = @ + 1]
  /\ UNCHANGED << random_seed, seq_chains, seq_budget >>
  /\ SeqFrame

NextSeq == \E r \in Runs : SeqStep(r)

\* two sequential runs on their own
InitSeqOnly ==
  InitSeq /\ NoPool /\ NoMean /\ NoFilter /\ NoDispatch /\ NoDriver
    /\ NoScore
    /\ NoCtor
    /\ NoSetup
    /\ NoRand
    /\ NoData

SpecSeq == InitSeqOnly /\ [][NextSeq]_vars

----------------------------------------------------------------------------
(* Properties of sequential runs *)

IsPrefix(s, t) == Len(s) <= Len(t) /\ SubSeq(t, 1, Len(s)) = s

----------------------------------------------------------------------------
(* The log_likelihood lambda of main (mcmc-laplace.cc:1294-1303) on a      *)
(* candidate with several components                                       *)

Components == 1 .. Len(candidate)

\* a test that lets a zero component pass
NonPositive_NegativeOnly(v) == v < 0

\* 'if (v<=0)'
NonPositive(v) == v <= 0

RECURSIVE PosteriorOf(_, _)
\* the value the forward model, the likelihood and the prior give for x
PosteriorOf(x, k) ==
  IF k = 0 THEN FracOfInt(0)
  ELSE FracAdd(PosteriorOf(x, k - 1), Posterior(FracOfInt(x[k])))

\* the sampler is about to score a candidate
InitScore ==
  /\ candidate \in UNION { [1 .. d -> -1 .. MaxComponent] : d \in 1 .. MaxDim }
  /\ score_pc = "loop"
  /\ score_i = 1
  /\ score_result = Finite(FracOfInt(0))
  /\ n_evaluate = 0

\* for (const auto &v : x) if (v<=0) return -infinity;
ScoreLoop ==
  /\ score_pc = "loop"
  /\ IF score_i \notin Components
       THEN /\ score_pc' = "evaluate"
            /\ UNCHANGED << score_i, score_result >>
       ELSE IF NonPositive(candidate[score_i])
         THEN /\ score_result' = MinusInfinity
              /\ score_pc' = "returned"
              /\ UNCHANGED score_i
         ELSE /\ score_i' = score_i + 1
              /\ UNCHANGED << score_pc, score_result >>
  /\ UNCHANGED << candidate, n_evaluate >>
  /\ ScoreFrame

\* const double posterior = (log_likelihood.log_likelihood(
\*   laplace_problem.evaluate(x)) + log_prior.log_prior(x));
\* return posterior;
ScoreEvaluate ==
  /\ score_pc = "evaluate"
  /\ n_evaluate' = n_evaluate + 1
  /\ score_result' = Finite(PosteriorOf(candidate, Len(candidate)))
  /\ score_pc' = "returned"
  /\ UNCHANGED << candidate, score_i >>
  /\ ScoreFrame

NextScore == ScoreLoop \/ ScoreEvaluate

\* one call of the lambda on its own
InitScoreOnly ==
  InitScore /\ NoPool /\ NoMean /\ NoFilter /\ NoDispatch /\ NoDriver
    /\ NoSeq
    /\ NoCtor
    /\ NoSetup
    /\ NoRand
    /\ NoData

SpecScore == InitScoreOnly /\ [][NextScore]_vars

----------------------------------------------------------------------------
(* Properties of the scoring lambda *)

\* C16: a candidate with any component <= 0 is scored minus infinity
\* without the forward model, the likelihood or the prior being invoked;
\* they are invoked only for candidates whose components are all > 0.
NonPositiveScoresMinusInfinity ==
  /\ n_evaluate > 0 => \A k \in Components : candidate[k] > 0
  /\ (score_pc = "returned" /\ \E k \in Components : candidate[k] <= 0)
       => score_result = MinusInfinity /\ n_evaluate = 0
  /\ (score_pc = "returned" /\ \A k \in Components : candidate[k] > 0)
       => ~ score_result.inf /\ n_evaluate = 1

NonPositiveScoresMinusInfinity_Witness ==
  /\ score_pc = "returned"
  /\ Len(candidate) = MaxDim
  /\ candidate[MaxDim] = 0
  /\ \A k \in 1 .. (MaxDim - 1) : candidate[k] > 0
  /\ score_result = MinusInfinity
  /\ n_evaluate = 0

----------------------------------------------------------------------------
(* A TakeNEveryM with a MeanValue connected to it: each thread passes its  *)
(* sample to filter() and, if it is returned, on to consume()              *)

\* the filter and the consumer are constructed and connected; thread 0
\* reads the mean, the other threads deliver samples
InitPipeline ==
  /\ filter_mutex = NoThread
  /\ counter = 0
  /\ every_mth \in 1 .. MaxPipeEvery
  /\ filter_n_samples = 1
  /\ n_arrived = 0
  /\ forwarded = {}
  /\ dropped = {}
  /\ mean_mutex = NoThread
  /\ current_mean \in IndeterminateMeans
  /\ n_samples = 0
  /\ \E k \in 1 .. MaxThreads :
       /\ filter_pc = [t \in 1 .. k |-> "idle"]
       /\ my_counter = [t \in 1 .. k |-> 0]
       /\ arrival = [t \in 1 .. k |-> 0]
       /\ mean_pc = [t \in 0 .. k |-> "idle"]
       /\ mean_sample = [t \in 0 .. k |-> 0]
       /\ calls_left = [t \in 0 .. k |-> IF t = Reader THEN 0 ELSE MaxCalls]
  /\ n_calls = MaxCalls
  /\ submitted_sum = 0
  /\ consumed_sum = 0
  /\ consumed_n = 0
  /\ get_result = FracOfInt(0)
  /\ get_seen = [sum |-> 0, n |-> 0]

\* a thread delivers a sample to the filter
PipeCall(t, sample) ==
  /\ filter_pc[t] = "idle"
  /\ calls_left[t] > 0
  /\ calls_left' = [calls_left EXCEPT ![t] = @ - 1]
  /\ mean_sample' = [mean_sample EXCEPT ![t] = sample]
  /\ filter_pc' = [filter_pc EXCEPT ![t] = "f_lock"]
  /\ UNCHANGED << filter_mutex, counter, every_mth, filter_n_samples,
                  my_counter, n_arrived, arrival, forwarded, dropped >>
  /\ UNCHANGED << mean_mutex, current_mean, n_samples, mean_pc, n_calls,
                  submitted_sum, consumed_sum, consumed_n, get_result,
                  get_seen >>
  /\ PipeFrame

\* filter() returns: a sample that is returned goes on to the consumer's
\* consume(), an empty object ends the delivery
PipeForward(t) ==
  /\ filter_pc[t] = "f_decide"
  /\ \E forward \in ForwardDecisions(my_counter[t], every_mth,
                                      filter_n_samples) :
       IF forward
         THEN /\ forwarded' = forwarded \cup {arrival[t]}
              /\ filter_pc' = [filter_pc EXCEPT ![t] = "downstream"]
              /\ mean_pc' = [mean_pc EXCEPT ![t] = "c_lock"]
              /\ submitted_sum' = submitted_sum + mean_sample[t]
              /\ UNCHANGED dropped
         ELSE /\ dropped' = dropped \cup {arrival[t]}
              /\ filter_pc' = [filter_pc EXCEPT ![t] = "idle"]
              /\ UNCHANGED << forwarded, mean_pc, submitted_sum >>
  /\ UNCHANGED << filter_mutex, counter, every_mth, filter_n_samples,
                  my_counter, n_arrived, arrival >>
  /\ UNCHANGED << mean_mutex, current_mean, n_samples, mean_sample,
                  calls_left, n_calls, consumed_sum, consumed_n, get_result,
                  get_seen >>
  /\ PipeFrame

\* consume() has returned: the delivery is complete
PipeReturn(t) ==
  /\ filter_pc[t] = "downstream"
  /\ mean_pc[t] = "idle"
  /\ filter_pc' = [filter_pc EXCEPT ![t] = "idle"]
  /\ UNCHANGED << filter_mutex, counter, every_mth, filter_n_samples,
                  my_counter, n_arrived, arrival, forwarded, dropped >>
  /\ UNCHANGED meanVars
  /\ PipeFrame

NextPipeline ==
  \/ \E t \in FilterThreads, sample \in Samples : PipeCall(t, sample)
  \/ \E t \in FilterThreads : FilterLock(t)
  \/ \E t \in FilterThreads : FilterRead(t)
  \/ \E t \in FilterThreads : FilterCount(t)
  \/ \E t \in FilterThreads : PipeForward(t)
  \/ \E t \in Consumers : ConsumeLock(t)
  \/ \E t \in Consumers : ConsumeCount(t)
  \/ \E t \in Consumers : ConsumeFirst(t)
  \/ \E t \in Consumers : ConsumeUpdate(t)
  \/ \E t \in FilterThreads : PipeReturn(t)
  \/ GetCall
  \/ GetLock
  \/ GetRead
  \/ GetReturn

\* the filter and its consumer on their own
InitPipelineOnly ==
  InitPipeline /\ NoPool /\ NoDispatch /\ NoDriver /\ NoSeq /\ NoScore
    /\ NoCtor
    /\ NoSetup
    /\ NoRand
    /\ NoData

SpecPipeline == InitPipelineOnly /\ [][NextPipeline]_vars

----------------------------------------------------------------------------
(* Properties of the subscribers' mutexes *)

\* C19: no thread holds the mutex of a subscriber while it is in another
\* component: filter() has given back its mutex before it returns its
\* decision and while the sample is with the consumer; consume() and get()
\* hold the consumer's mutex only around the consumer's own state; no
\* thread holds the two mutexes at once.
SubscriberLocksAreLocal ==
  /\ \A t \in FilterThreads :
       filter_mutex = t => filter_pc[t] \in {"f_read", "f_count"}
  /\ \A t \in DOMAIN mean_pc :
       mean_mutex = t =>
         mean_pc[t] \in {"c_count", "c_first", "c_update", "g_read"}
  /\ \A t \in FilterThreads : ~ (filter_mutex = t /\ mean_mutex = t)

SubscriberLocksAreLocal_Witness ==
  /\ filter_pc[1] = "downstream" /\ mean_pc[1] = "c_update"
  /\ mean_mutex = 1
  /\ filter_mutex = 2 /\ filter_pc[2] = "f_read"
  /\ mean_pc[Reader] = "g_lock"

----------------------------------------------------------------------------
(* ThreadPool::ThreadPool, step by step *)

\* the examples the constructor lists: one record per column
\* (OMP_NUM_THREADS 'na': the variable is not set)
ExamplesTable ==
  << [max_threads |-> 64, hw_concurrency |-> 192, OMP_NUM_THREADS |-> << 32 >>,
      concurrency |-> 31, n_worker_threads |-> 31],
     [max_threads |-> 64, hw_concurrency |-> 192, OMP_NUM_THREADS |-> << 64 >>,
      concurrency |-> 63, n_worker_threads |-> 63],
     [max_threads |-> 64, hw_concurrency |-> 192, OMP_NUM_THREADS |-> << 65 >>,
      concurrency |-> 64, n_worker_threads |-> 64],
     [max_threads |-> 64, hw_concurrency |-> 192, OMP_NUM_THREADS |-> << 128 >>,
      concurrency |-> 127, n_worker_threads |-> 64],
     [max_threads |-> 64, hw_concurrency |-> 192, OMP_NUM_THREADS |-> NoEnv,
      concurrency |-> 191, n_worker_threads |-> 64],
     [max_threads |-> 64, hw_concurrency |-> 8, OMP_NUM_THREADS |-> NoEnv,
      concurrency |-> 7, n_worker_threads |-> 7],
     [max_threads |-> 64, hw_concurrency |-> 8, OMP_NUM_THREADS |-> << 16 >>,
      concurrency |-> 7, n_worker_threads |-> 7],
     [max_threads |-> 64, hw_concurrency |-> 8, OMP_NUM_THREADS |-> << 4 >>,
      concurrency |-> 3, n_worker_threads |-> 3] >>

\* the inputs of the constructor: small values of each, a negative
\* OMP_NUM_THREADS among them, and the columns of the table
CtorInputs ==
  [max_threads : 0 .. MaxCtorThreads,
   hw_concurrency : 0 .. (MaxCtorThreads + 1),
   OMP_NUM_THREADS : {NoEnv} \cup
                       { << i >> : i \in -1 .. (MaxCtorThreads + 2) }]
  \cup { [max_threads |-> ExamplesTable[c].max_threads,
          hw_concurrency |-> ExamplesTable[c].hw_concurrency,
          OMP_NUM_THREADS |-> ExamplesTable[c].OMP_NUM_THREADS] :
         c \in 1 .. Len(ExamplesTable) }

\* the constructor has been entered: the member initialisers have run
InitCtor ==
  /\ \E in \in CtorInputs :
       /\ arg_max_threads = in.max_threads
       /\ sys_hardware_concurrency = in.hw_concurrency
       /\ env_OMP_NUM_THREADS = in.OMP_NUM_THREADS
  /\ ctor_pc = "concurrency"
  /\ worker_threads = 0

CtorPoolFrame ==
  UNCHANGED << stop_signal, task_queue, currently_executing_tasks,
               queue_mutex, wake_up_mutex, wake_up_signal, pc, task,
               inline_stack, in_dtor, n_joined, n_submitted, enqueued,
               started, finished, join_snapshot, lock_order, pop_order,
               run_order >>

\* lines 98-119: concurrency is computed and limited by max_threads
CtorConcurrency ==
  /\ ctor_pc = "concurrency"
  /\ n_worker_threads' = ThreadPoolCtor(arg_max_threads,
                                        sys_hardware_concurrency,
                                        env_OMP_NUM_THREADS)
  /\ ctor_pc' = "start"
  /\ UNCHANGED << arg_max_threads, sys_hardware_concurrency,
                  env_OMP_NUM_THREADS, worker_threads >>
  /\ CtorPoolFrame /\ CtorFrame

\* worker_threads.emplace_back(...): one more worker thread is started
CtorEmplace ==
  /\ ctor_pc = "start"
  /\ n_worker_threads >= 1
  /\ worker_threads < n_worker_threads
  /\ worker_threads' = worker_threads + 1
  /\ UNCHANGED << arg_max_threads, sys_hardware_concurrency,
                  env_OMP_NUM_THREADS, ctor_pc,
                  n_worker_threads >>
  /\ CtorPoolFrame /\ CtorFrame

\* the loop is over, or there was no concurrency: the constructor returns
CtorReturn ==
  /\ ctor_pc = "start"
  /\ ~ (n_worker_threads >= 1 /\ worker_threads < n_worker_threads)
  /\ ctor_pc' = "constructed"
  /\ UNCHANGED << arg_max_threads, sys_hardware_concurrency,
                  env_OMP_NUM_THREADS, worker_threads,
                  n_worker_threads >>
  /\ CtorPoolFrame /\ CtorFrame

NextCtor == CtorConcurrency \/ CtorEmplace \/ CtorReturn

\* a pool being constructed
InitCtorOnly ==
  InitCtor /\ NoPool /\ NoMean /\ NoFilter /\ NoDispatch /\ NoDriver
    /\ NoSeq /\ NoScore
    /\ NoSetup
    /\ NoRand
    /\ NoData

SpecCtor == InitCtorOnly /\ [][NextCtor]_vars

----------------------------------------------------------------------------
(* Claims about the constructor *)

Max(a, b) == IF a > b THEN a ELSE b

\* the number of workers as the claim computes it, over the integers
ClaimedWorkers(chains, hw, omp) ==
  LET h == IF omp # NoEnv THEN Min(omp[1], hw) ELSE hw
      c == Max(0, h - 1)
  IN  Min(chains, c)

\* C21: once the constructor has returned, the number of worker threads it
\* started is min(max_threads, max(0, h - 1)) with h = min(OMP_NUM_THREADS,
\* hardware_concurrency) if OMP_NUM_THREADS is set and hardware_concurrency
\* otherwise; for the columns of the table in the constructor this is the
\* table's n_worker_threads
WorkerCountIsMinOfBudgetAndConcurrency ==
  ctor_pc = "constructed" =>
    /\ worker_threads = ClaimedWorkers(arg_max_threads,
                                       sys_hardware_concurrency,
                                       env_OMP_NUM_THREADS)
    /\ \A c \in 1 .. Len(ExamplesTable) :
         ( /\ arg_max_threads = ExamplesTable[c].max_threads
           /\ sys_hardware_concurrency = ExamplesTable[c].hw_concurrency
           /\ env_OMP_NUM_THREADS = ExamplesTable[c].OMP_NUM_THREADS )
         => worker_threads = ExamplesTable[c].n_worker_threads

----------------------------------------------------------------------------
(* Claims about the order of the tasks *)

\* the tasks waiting in the queue, oldest first
Queued == [i \in 1 .. Len(task_queue) |-> task_queue[i].second]

\* the threads between lock_guard and emplace_back in enqueue_task
Pushing == { th \in DOMAIN pc : pc[th] = "e_push" }

\* C22 as stated: on a pool with workers enqueue_task never runs the task
\* on the calling thread, and the tasks begin to execute in exactly the
\* order in which their enqueue_task calls took queue_mutex
TasksStartInLockOrder ==
  n_worker_threads >= 1 =>
    /\ inline_stack = << >>
    /\ IsPrefix(run_order, lock_order)

\* C22 (amended): on a pool with workers enqueue_task appends at the tail
\* and never runs the task on the calling thread; the tasks are taken out
\* of the queue in exactly the order in which their enqueue_task calls took
\* queue_mutex, and only tasks taken out begin to execute; with one worker
\* they also begin to execute in that order
TasksAreTakenInLockOrder ==
  n_worker_threads >= 1 =>
    /\ inline_stack = << >>
    /\ IsPrefix(pop_order \o Queued, lock_order)
    /\ Len(lock_order) = Len(pop_order) + Len(Queued) + Cardinality(Pushing)
    /\ \A i \in 1 .. Len(run_order) :
         \E j \in 1 .. Len(pop_order) : run_order[i] = pop_order[j]
    /\ n_worker_threads = 1 => IsPrefix(run_order, pop_order)

TasksAreTakenInLockOrder_Witness ==
  /\ n_worker_threads = 2
  /\ Len(lock_order) >= 3
  /\ Len(pop_order) = 2
  /\ Len(Queued) = 1
  /\ run_order = << lock_order[2] >>

----------------------------------------------------------------------------
(* Claims about MeanValue before the first sample *)

\* C26: a get() that takes the mutex before any sample has been consumed
\* returns a value-initialised InputType (zero, for a scalar type)
GetBeforeFirstSampleIsValueInitialised ==
  (mean_pc[Reader] = "g_ret" /\ get_seen.n = 0) =>
    get_result = FracOfInt(0)

----------------------------------------------------------------------------
(* Claims about the return value of TakeNEveryM::filter *)

\* the calls of filter that have returned: the thread and its sample
Returned ==
  { t \in FilterThreads :
      filter_pc[t] = "idle" /\ arrival[t] \in forwarded \cup dropped }

\* the documented rule, with the samples counted from 'first'
EveryNthFrom(first) ==
  /\ \A k \in forwarded : (k + first) % filter_n_samples = 0
  /\ \A k \in dropped : (k + first) % filter_n_samples # 0

----------------------------------------------------------------------------
(* main: from the parameter file to the call of sampler.sample *)

\* the parameter file has no entry "Number of chains"
NoEntry == << >>

\* 'Patterns::Integer (3,100)': the upper end
MaxChainsAllowed == 100

\* an entry that any integer satisfies, as for "Number of samples per chain"
PatternMatches_AnyInteger(v) == TRUE

\* Patterns::Integer (3,100): the entry is an integer in 3..100
PatternMatches(v) == MinChains <= v /\ v <= MaxChainsAllowed

\* the entries a parameter file can hold for "Number of chains"
Entries ==
  {NoEntry} \cup
    { << v >> : v \in (MinChains - MaxOutside) ..
                      (MaxChainsAllowed + MaxOutside) }

\* main has declared its variables and the parameters
\* ('unsigned int n_chains = 3')
InitSetup ==
  /\ prm_chains \in Entries
  /\ main_pc = "parse_input"
  /\ main_n_chains = MinChains
  /\ sampler_declared = FALSE
  /\ connected = FALSE
  /\ sample_chains = 0

\* prm.parse_input(argv[1]): the entry satisfies its pattern (or there is
\* none and the default stays)
ParseInput ==
  /\ main_pc = "parse_input"
  /\ prm_chains # NoEntry => PatternMatches(prm_chains[1])
  /\ main_n_chains' = IF prm_chains = NoEntry THEN main_n_chains
                                              ELSE prm_chains[1]
  /\ main_pc' = "declare"
  /\ UNCHANGED << prm_chains, sampler_declared, connected, sample_chains >>
  /\ SetupFrame

\* prm.parse_input(argv[1]): the entry does not satisfy its pattern; the
\* error ends the run
ParseInputFails ==
  /\ main_pc = "parse_input"
  /\ prm_chains # NoEntry /\ ~ PatternMatches(prm_chains[1])
  /\ main_pc' = "aborted"
  /\ UNCHANGED << prm_chains, main_n_chains, sampler_declared, connected,
                  sample_chains >>
  /\ SetupFrame

\* DifferentialEvaluationMetropolisHastings<SampleType> sampler;
DeclareSampler ==
  /\ main_pc = "declare"
  /\ sampler_declared' = TRUE
  /\ main_pc' = "connect"
  /\ UNCHANGED << prm_chains, main_n_chains, connected, sample_chains >>
  /\ SetupFrame

\* the filters and consumers are declared and connected to their producers
ConnectSubscribers ==
  /\ main_pc = "connect"
  /\ connected' = TRUE
  /\ main_pc' = "sample"
  /\ UNCHANGED << prm_chains, main_n_chains, sampler_declared,
                  sample_chains >>
  /\ SetupFrame

\* sampler.sample(std::vector<SampleType>(n_chains, ...), ...)
CallSample ==
  /\ main_pc = "sample"
  /\ sample_chains' = main_n_chains
  /\ main_pc' = "sampling"
  /\ UNCHANGED << prm_chains, main_n_chains, sampler_declared, connected >>
  /\ SetupFrame

NextSetup ==
  \/ ParseInput
  \/ ParseInputFails
  \/ DeclareSampler
  \/ ConnectSubscribers
  \/ CallSample

\* main on its own, up to the call of sampler.sample
InitSetupOnly ==
  InitSetup /\ NoPool /\ NoMean /\ NoFilter /\ NoDispatch /\ NoDriver
    /\ NoSeq /\ NoScore /\ NoCtor
    /\ NoRand
    /\ NoData

SpecSetup == InitSetupOnly /\ [][NextSetup]_vars

----------------------------------------------------------------------------
(* Claims about the setup *)

\* C24: with a configured "Number of chains" outside 3..100, main never gets
\* past parse_input: no sampler, no connection and no call of sample exist;
\* and sampler.sample is never called with fewer than 3 chains
InvalidChainCountIsRejectedAtSetup ==
  /\ (prm_chains # NoEntry /\ (prm_chains[1] < 3 \/ prm_chains[1] > 100)) =>
       /\ main_pc \in {"parse_input", "aborted"}
       /\ ~ sampler_declared
       /\ ~ connected
       /\ sample_chains = 0
  /\ main_pc = "sampling" => sample_chains >= 3

InvalidChainCountIsRejectedAtSetup_Witness ==
  /\ prm_chains = << 2 >>
  /\ main_pc = "aborted"
  /\ ~ sampler_declared

----------------------------------------------------------------------------
(* Claims about the ownership of tasks and the counter of running tasks *)

NoDuplicates(s) ==
  \A i, j \in 1 .. Len(s) : s[i] = s[j] => i = j

\* the workers that have taken a task out of the queue and have not yet
\* decremented currently_executing_tasks for it
Holding ==
  { w \in Workers :
      pc[w] \in {"run", "e_lock", "e_push", "e_notify", "dec_lock", "dec"} }

\* C27: on a pool with workers no task is taken out of the queue twice, no
\* two workers hold the same task, a task that was taken out is not in the
\* queue again, and no task begins to execute twice or without having been
\* taken out by a worker
TasksRunAtMostOnce ==
  n_worker_threads >= 1 =>
    /\ NoDuplicates(pop_order)
    /\ NoDuplicates(run_order)
    /\ NoDuplicates(Queued)
    /\ \A i \in 1 .. Len(pop_order), j \in 1 .. Len(Queued) :
         pop_order[i] # Queued[j]
    /\ \A w1, w2 \in Holding : task[w1] = task[w2] => w1 = w2
    /\ \A w \in Holding : \E i \in 1 .. Len(pop_order) : pop_order[i] = task[w]
    /\ \A i \in 1 .. Len(run_order) :
         \E j \in 1 .. Len(pop_order) : pop_order[j] = run_order[i]
    /\ Len(run_order) <= Len(pop_order)

TasksRunAtMostOnce_Witness ==
  /\ n_worker_threads = 2
  /\ pc[1] = "run" /\ pc[2] = "dec_lock"
  /\ Len(pop_order) = 3
  /\ Len(run_order) = 2
  /\ Len(Queued) = 1

\* C28: currently_executing_tasks is the number of workers that have taken
\* a task out of the queue and not yet made the matching decrement; it is
\* never larger than n_worker_threads and a decrement never finds it at 0
ExecutingCountsHoldingWorkers ==
  /\ currently_executing_tasks = Cardinality(Holding)
  /\ currently_executing_tasks <= n_worker_threads
  /\ currently_executing_tasks >= 0
  /\ \A w \in Workers : pc[w] = "dec" => currently_executing_tasks >= 1

ExecutingCountsHoldingWorkers_Witness ==
  /\ n_worker_threads = 2
  /\ currently_executing_tasks = 2
  /\ pc[1] = "dec" /\ pc[2] = "e_lock"

----------------------------------------------------------------------------
(* Claims about concurrent calls of TakeNEveryM::filter *)

\* the threads that hold a counter value they have not yet decided on
Drawn == { t \in FilterThreads : filter_pc[t] \in {"f_count", "f_decide"} }

\* the threads inside the critical section that have not yet incremented
Incrementing ==
  { t \in FilterThreads : filter_pc[t] \in {"f_read", "f_count"} }

\* how many of the samples 0 .. T-1 satisfy (k mod m) < n
ForwardedAmong(T, m, n) == (T \div m) * Min(n, m) + Min(T % m, n)

\* C29: concurrent calls draw distinct counter values, the call that is the
\* k-th to take the mutex draws k, so after T calls the values 0 .. T-1 have
\* been handed out once each; and for every_mth >= 1 the number of samples
\* forwarded among T calls is a function of T, every_mth and n alone
FilterHandsOutEachValueOnce ==
  /\ \A t, u \in Drawn : my_counter[t] = my_counter[u] => t = u
  /\ \A t \in Drawn : my_counter[t] = arrival[t]
  /\ \A t \in Returned : my_counter[t] = arrival[t]
  /\ counter = n_arrived - Cardinality(Incrementing)
  /\ forwarded \cap dropped = {}
  /\ AllFiltered =>
       /\ counter = n_arrived
       /\ forwarded \cup dropped = 0 .. (n_arrived - 1)
       /\ every_mth >= 1 =>
            Cardinality(forwarded) =
              ForwardedAmong(n_arrived, every_mth, filter_n_samples)

FilterHandsOutEachValueOnce_Witness ==
  /\ Cardinality(FilterThreads) = 2
  /\ filter_pc[1] = "f_decide" /\ filter_pc[2] = "f_decide"
  /\ my_counter[1] = 4 /\ my_counter[2] = 3
  /\ every_mth = 2 /\ filter_n_samples = 1
  /\ Cardinality(forwarded) = 2

----------------------------------------------------------------------------
(* main's postprocess_subsampler: a TakeNEveryM fed by the sampler *)

\* 'TakeNEveryM<SampleType> postprocess_subsampler(n_chains*64, n_chains)'
SubsamplePeriod == 64

\* the sampler runs and every chain is at its starting sample; the
\* subsampler has been constructed and connected
InitSubsample ==
  /\ n_chains \in MinChains .. MaxSubChains
  /\ budget = 0
  /\ n_samples_per_chain = 0
  /\ generation = 0
  /\ population = [i \in Chains |-> 0]
  /\ snapshot = [i \in Chains |-> 0]
  /\ n_emitted = 0
  /\ filter_mutex = NoThread
  /\ counter = 0
  /\ every_mth = n_chains * SubsamplePeriod
  /\ filter_n_samples = n_chains
  /\ filter_pc = [t \in Chains |-> "idle"]
  /\ my_counter = [t \in Chains |-> 0]
  /\ arrival = [t \in Chains |-> 0]
  /\ n_arrived = 0
  /\ forwarded = {}
  /\ dropped = {}

\* the task of chain t in this generation: the chain makes its move (steps
\* 1 to 3) and emits the sample it holds (step 4); the sample reaches the
\* subsampler, whose filter() is called on the thread of the task
SubEmit(t) ==
  /\ population[t] = generation
  /\ filter_pc[t] = "idle"
  /\ population' = [population EXCEPT ![t] = generation + 1]
  /\ n_emitted' = n_emitted + 1
  /\ filter_pc' = [filter_pc EXCEPT ![t] = "f_lock"]
  /\ UNCHANGED << n_chains, budget, n_samples_per_chain, generation,
                  snapshot >>
  /\ UNCHANGED << filter_mutex, counter, every_mth, filter_n_samples,
                  my_counter, n_arrived, arrival, forwarded, dropped >>
  /\ SubFrame

\* every task of the generation has returned: join_all() returns and the
\* next generation starts
SubBarrier ==
  /\ generation < MaxGenerations
  /\ \A t \in Chains : population[t] = generation + 1 /\ filter_pc[t] = "idle"
  /\ generation' = generation + 1
  /\ snapshot' = population
  /\ UNCHANGED << n_chains, budget, n_samples_per_chain, population,
                  n_emitted >>
  /\ UNCHANGED filterVars
  /\ SubFrame

NextSubsample ==
  \/ \E t \in Chains : SubEmit(t)
  \/ \E t \in Chains : FilterLock(t)
  \/ \E t \in Chains : FilterRead(t)
  \/ \E t \in Chains : FilterCount(t)
  \/ \E t \in Chains : FilterDecide(t)
  \/ SubBarrier

\* the sampler feeding the subsampler
InitSubsampleOnly ==
  InitSubsample /\ NoPool /\ NoMean /\ NoDispatch /\ NoSeq /\ NoScore
    /\ NoCtor /\ NoSetup
    /\ NoRand
    /\ NoData

SpecSubsample == InitSubsampleOnly /\ [][NextSubsample]_vars

----------------------------------------------------------------------------
(* Claims about the subsampler *)

\* C30: the sample a chain emits in generation g is the k-th to reach the
\* subsampler with k in g * n_chains .. (g + 1) * n_chains - 1, in whatever
\* order the chains' calls interleave; it is forwarded if g is a multiple
\* of 64 and dropped otherwise, and once the generation is complete all of
\* its samples have been decided
SubsamplerTakesEvery64thGeneration ==
  /\ \A t \in Chains :
       filter_pc[t] \in {"f_read", "f_count", "f_decide"} =>
         arrival[t] \div n_chains = generation
  /\ \A k \in forwarded : (k \div n_chains) % 64 = 0
  /\ \A k \in dropped : (k \div n_chains) % 64 # 0
  /\ (\A t \in Chains : population[t] = generation + 1
                        /\ filter_pc[t] = "idle") =>
       /\ forwarded \cup dropped = 0 .. ((generation + 1) * n_chains - 1)
       /\ Cardinality(forwarded) = n_chains * (1 + generation \div 64)

SubsamplerTakesEvery64thGeneration_Witness ==
  /\ generation = 64
  /\ filter_pc[1] = "f_decide" /\ arrival[1] = 64 * n_chains + 1
  /\ filter_pc[2] = "idle" /\ arrival[2] = 64 * n_chains
  /\ forwarded = (0 .. (n_chains - 1)) \cup {64 * n_chains}

----------------------------------------------------------------------------
(* Claims about the task ids *)

\* C38: the tasks in the queue carry different, increasing ids: a task
\* enqueued after another one has the larger id
TaskIdsIncrease ==
  \A i, j \in 1 .. Len(task_queue) :
    i < j => task_queue[i].first < task_queue[j].first

----------------------------------------------------------------------------
(* random::uniform_real_distribution and random::uniform_int_distribution   *)
(* called with a generator                                                  *)

\* the value a build may return where the language leaves it undefined
UndefinedInts == { 0, 7 }

\* what operator() of the int distribution can return for a draw:
\* '(rng()-rng.min()) % (b-a)' has no defined value for b = a
UniformIntResults(a, b, draw) ==
  IF b = a THEN UndefinedInts ELSE { UniformInt(a, b, draw) }

\* two distribution objects constructed with the same a and b
\* ('uniform_*_distribution(a, b) : a(a), b(b)'), each used with a
\* generator of its own; no call has been made
InitRand ==
  /\ dist_class \in { "uniform_real_distribution",
                      "uniform_int_distribution" }
  /\ dist_a \in -1 .. MaxEndpoint
  /\ dist_b \in -1 .. MaxEndpoint
  /\ rng_draws = [r \in Runs |-> << >>]
  /\ dist_results = [r \in Runs |-> << >>]

\* a real distribution that also uses how often it has been called
UniformRealCall_KeepsState(r) ==
  /\ dist_class = "uniform_real_distribution"
  /\ Len(dist_results[1]) + Len(dist_results[2]) < MaxRandCalls
  /\ \E draw \in RngMin .. RngMax :
       /\ rng_draws' = [rng_draws EXCEPT ![r] = Append(@, draw)]
       /\ dist_results' =
            [dist_results EXCEPT ![r] =
               Append(@, FracAdd(UniformReal(dist_a, dist_b, draw),
                                 FracOfInt(Len(dist_results[r]))))]
  /\ UNCHANGED << dist_class, dist_a, dist_b >>
  /\ RandFrame

\* uniform_real_distribution::operator()(rng): rng() is called once, the
\* value it returns being any value of the generator's range
UniformRealCall(r) ==
  /\ dist_class = "uniform_real_distribution"
  /\ Len(dist_results[1]) + Len(dist_results[2]) < MaxRandCalls
  /\ \E draw \in RngMin .. RngMax :
       /\ rng_draws' = [rng_draws EXCEPT ![r] = Append(@, draw)]
       /\ dist_results' =
            [dist_results EXCEPT ![r] =
               Append(@, UniformReal(dist_a, dist_b, draw))]
  /\ UNCHANGED << dist_class, dist_a, dist_b >>
  /\ RandFrame

\* uniform_int_distribution::operator()(rng): rng() is called once
UniformIntCall(r) ==
  /\ dist_class = "uniform_int_distribution"
  /\ Len(dist_results[1]) + Len(dist_results[2]) < MaxRandCalls
  /\ \E draw \in RngMin .. RngMax :
       /\ rng_draws' = [rng_draws EXCEPT ![r] = Append(@, draw)]
       /\ \E result \in UniformIntResults(dist_a, dist_b, draw) :
            dist_results' = [dist_results EXCEPT ![r] = Append(@, result)]
  /\ UNCHANGED << dist_class, dist_a, dist_b >>
  /\ RandFrame

NextRand ==
  \/ \E r \in Runs : UniformRealCall(r)
  \/ \E r \in Runs : UniformIntCall(r)

\* the distributions on their own
InitRandOnly ==
  InitRand /\ NoPool /\ NoMean /\ NoFilter /\ NoDispatch /\ NoDriver
    /\ NoSeq /\ NoScore /\ NoCtor /\ NoSetup
    /\ NoData

SpecRand == InitRandOnly /\ [][NextRand]_vars

----------------------------------------------------------------------------
(* Claims about the distributions *)

\* the remainder the int distribution computes is defined
ResultIsDefined == dist_class = "uniform_int_distribution" => dist_b # dist_a

\* C36: where the result is defined, every call of operator() has drawn
\* exactly one value from its generator; two calls, of the same object or
\* of two objects with the same a and b, that drew the same value returned
\* the same result; so two generators that return the same sequence give
\* the same sequence of results
DistributionsArePredictable ==
  ResultIsDefined =>
    /\ \A r \in Runs : Len(rng_draws[r]) = Len(dist_results[r])
    /\ \A r, q \in Runs :
         \A i \in 1 .. Len(dist_results[r]), j \in 1 .. Len(dist_results[q]) :
           rng_draws[r][i] = rng_draws[q][j] =>
             dist_results[r][i] = dist_results[q][j]
    /\ rng_draws[1] = rng_draws[2] => dist_results[1] = dist_results[2]

DistributionsArePredictable_Witness ==
  /\ dist_class = "uniform_real_distribution"
  /\ dist_a = -1 /\ dist_b = 1
  /\ rng_draws[1] = << 1, 3 >>
  /\ rng_draws[2] = << 3 >>
  /\ dist_results[1][2] = dist_results[2][1]
  /\ dist_results[1][1] # dist_results[1][2]

\* C37: for a < b the int distribution returns
\* a + ((draw - rng.min()) mod (b - a)), a value of a .. b - 1 and never
\* b; if the generator's range has at least b - a values, each value of
\* a .. b - 1 is the result for some draw
UniformIntExcludesUpperBound ==
  ( dist_class = "uniform_int_distribution" /\ dist_a < dist_b ) =>
    /\ \A r \in Runs : \A i \in 1 .. Len(dist_results[r]) :
         /\ dist_results[r][i] =
              dist_a + ((rng_draws[r][i] - RngMin) % (dist_b - dist_a))
         /\ dist_a <= dist_results[r][i]
         /\ dist_results[r][i] <= dist_b - 1
    /\ (RngMax - RngMin) + 1 >= dist_b - dist_a =>
         \A v \in dist_a .. (dist_b - 1) :
           \E draw \in RngMin .. RngMax :
             v \in UniformIntResults(dist_a, dist_b, draw)

UniformIntExcludesUpperBound_Witness ==
  /\ dist_class = "uniform_int_distribution"
  /\ dist_a = -1 /\ dist_b = 2
  /\ rng_draws[1] = << 2, 3 >>
  /\ dist_results[1] = << 1, -1 >>

----------------------------------------------------------------------------
(* Claims about the blocks of a TakeNEveryM *)

\* the arrivals of the b-th block of every_mth consecutive arrivals
Block(b) == (b * every_mth) .. ((b + 1) * every_mth - 1)

\* the first min(n_samples, every_mth) arrivals of the b-th block
BlockHead(b) ==
  (b * every_mth) .. (b * every_mth + Min(filter_n_samples, every_mth) - 1)

\* C35: for every_mth >= 1, of every block of every_mth consecutive
\* arrivals that starts at a multiple of every_mth the filter forwards the
\* first min(n_samples, every_mth) and drops the rest; with
\* n_samples >= every_mth nothing is dropped, with n_samples = 0 nothing is
\* forwarded
FilterForwardsHeadOfEachBlock ==
  every_mth >= 1 =>
    /\ \A b \in 0 .. (n_arrived \div every_mth) :
         /\ forwarded \cap Block(b) \subseteq BlockHead(b)
         /\ dropped \cap Block(b) \subseteq Block(b) \ BlockHead(b)
         /\ ( AllFiltered /\ (b + 1) * every_mth <= n_arrived ) =>
              /\ forwarded \cap Block(b) = BlockHead(b)
              /\ Cardinality(forwarded \cap Block(b))
                   = Min(filter_n_samples, every_mth)
              /\ dropped \cap Block(b) = Block(b) \ BlockHead(b)
    /\ filter_n_samples >= every_mth => dropped = {}
    /\ filter_n_samples = 0 => forwarded = {}

FilterForwardsHeadOfEachBlock_Witness ==
  /\ every_mth = 2
  /\ filter_n_samples = 3
  /\ n_arrived = 5
  /\ AllFiltered
  /\ forwarded = 0 .. 4

----------------------------------------------------------------------------
(* TakeNEveryM::filter with the sample and the auxiliary data it is given *)

\* the values of the samples and of AuxiliaryData
AuxValues == 0 .. MaxAux

\* boost::optional<std::pair<InputType, AuxiliaryData>>: a sequence that is
\* empty or holds one pair
Empty == << >>
Some(sample, aux_data) == << [first |-> sample, second |-> aux_data] >>

\* a TakeNEveryM that has not been called
InitData ==
  /\ filter_mutex = NoThread
  /\ counter = 0
  /\ every_mth \in 1 .. MaxDataEvery
  /\ filter_n_samples \in 0 .. MaxDataEvery
  /\ \E k \in 1 .. MaxFilterThreads :
       /\ filter_pc = [t \in 1 .. k |-> "idle"]
       /\ my_counter = [t \in 1 .. k |-> 0]
       /\ arrival = [t \in 1 .. k |-> 0]
       /\ filter_sample = [t \in 1 .. k |-> 0]
       /\ filter_aux_data = [t \in 1 .. k |-> 0]
       /\ filter_result = [t \in 1 .. k |-> Empty]
  /\ n_arrived = 0
  /\ forwarded = {}
  /\ dropped = {}

\* a thread calls filter(sample, aux_data)
FilterCallWith(t, sample, aux_data) ==
  /\ filter_pc[t] = "idle"
  /\ n_arrived + Cardinality({u \in FilterThreads : filter_pc[u] = "f_lock"})
       < MaxDataInputs
  /\ filter_pc' = [filter_pc EXCEPT ![t] = "f_lock"]
  /\ filter_sample' = [filter_sample EXCEPT ![t] = sample]
  /\ filter_aux_data' = [filter_aux_data EXCEPT ![t] = aux_data]
  /\ filter_result' = [filter_result EXCEPT ![t] = Empty]
  /\ UNCHANGED << filter_mutex, counter, every_mth, filter_n_samples,
                  my_counter, n_arrived, arrival, forwarded, dropped >>
  /\ DataFrame

\* a filter that forwards a default-constructed sample
FilterReturn_NewSample(t) ==
  /\ filter_pc[t] = "f_decide"
  /\ \E forward \in ForwardDecisions(my_counter[t], every_mth,
                                      filter_n_samples) :
       IF forward
         THEN /\ filter_result' =
                   [filter_result EXCEPT ![t] = Some(0, filter_aux_data[t])]
              /\ forwarded' = forwarded \cup {arrival[t]}
              /\ UNCHANGED dropped
         ELSE /\ filter_result' = [filter_result EXCEPT ![t] = Empty]
              /\ dropped' = dropped \cup {arrival[t]}
              /\ UNCHANGED forwarded
  /\ filter_pc' = [filter_pc EXCEPT ![t] = "idle"]
  /\ filter_sample' = [filter_sample EXCEPT ![t] = 0]
  /\ filter_aux_data' = [filter_aux_data EXCEPT ![t] = 0]
  /\ UNCHANGED << filter_mutex, counter, every_mth, filter_n_samples,
                  my_counter, n_arrived, arrival >>
  /\ DataFrame

\* if (my_counter % every_mth < n_samples)
\*   return {{ std::move(sample), std::move(aux_data) }};
\* else return {};
\* The parameters sample and aux_data end with the call.
FilterReturn(t) ==
  /\ filter_pc[t] = "f_decide"
  /\ \E forward \in ForwardDecisions(my_counter[t], every_mth,
                                      filter_n_samples) :
       IF forward
         THEN /\ filter_result' =
                   [filter_result EXCEPT
                      ![t] = Some(filter_sample[t], filter_aux_data[t])]
              /\ forwarded' = forwarded \cup {arrival[t]}
              /\ UNCHANGED dropped
         ELSE /\ filter_result' = [filter_result EXCEPT ![t] = Empty]
              /\ dropped' = dropped \cup {arrival[t]}
              /\ UNCHANGED forwarded
  /\ filter_pc' = [filter_pc EXCEPT ![t] = "idle"]
  /\ filter_sample' = [filter_sample EXCEPT ![t] = 0]
  /\ filter_aux_data' = [filter_aux_data EXCEPT ![t] = 0]
  /\ UNCHANGED << filter_mutex, counter, every_mth, filter_n_samples,
                  my_counter, n_arrived, arrival >>
  /\ DataFrame

NextData ==
  \/ \E t \in FilterThreads, sample \in AuxValues, aux_data \in AuxValues :
       FilterCallWith(t, sample, aux_data)
  \/ \E t \in FilterThreads : FilterLock(t)
  \/ \E t \in FilterThreads : FilterRead(t)
  \/ \E t \in FilterThreads : FilterCount(t)
  \/ \E t \in FilterThreads : FilterReturn(t)

\* a TakeNEveryM and the data passed through it
InitDataOnly ==
  InitData /\ NoPool /\ NoMean /\ NoDispatch /\ NoDriver /\ NoSeq
    /\ NoScore /\ NoCtor /\ NoSetup /\ NoRand

SpecData == InitDataOnly /\ [][NextData]_vars

----------------------------------------------------------------------------
(* Claims about what TakeNEveryM does to the data *)

\* the threads whose call of filter returns in this step
Returning == { t \in FilterThreads :
                 filter_pc[t] = "f_decide" /\ filter_pc'[t] = "idle" }

\* the threads that increment the counter in this step
Counting == { t \in FilterThreads :
                filter_pc[t] = "f_count" /\ filter_pc'[t] = "f_decide" }

\* C34: a call of filter that forwards returns exactly the sample and the
\* auxiliary data it was given; whether it forwards is decided by the
\* counter value it drew (and every_mth and n_samples), whatever the sample
\* and the auxiliary data are; no step of filter changes every_mth or
\* n_samples, and the counter grows by exactly one in every call
FilterForwardsWhatItReceived ==
  [][ /\ \A t \in Returning :
           filter_result'[t] =
             IF my_counter[t] % every_mth < filter_n_samples
               THEN Some(filter_sample[t], filter_aux_data[t])
               ELSE Empty
      /\ every_mth' = every_mth
      /\ filter_n_samples' = filter_n_samples
      /\ counter' = counter + Cardinality(Counting)
      /\ Cardinality(Counting) <= 1
      /\ (\A t \in FilterThreads : filter_pc'[t] = "idle") =>
           counter' = n_arrived' ]_vars

FilterForwardsWhatItReceived_Witness ==
  /\ Cardinality(FilterThreads) = 2
  /\ every_mth = 2 /\ filter_n_samples = 1
  /\ \A t \in FilterThreads : filter_pc[t] = "idle"
  /\ counter = 2
  /\ arrival[1] = 1 /\ filter_result[1] = Empty
  /\ arrival[2] = 0 /\ filter_result[2] = Some(1, 0)

----------------------------------------------------------------------------
(* Claims about the life of the worker threads *)

\* the workers that leave their loop in this step
Leaving == { w \in Workers : pc[w] # "exit" /\ pc'[w] = "exit" }

\* C33: a worker leaves its loop only from the check it makes while it
\* holds queue_mutex, and only if it finds stop_signal set; stop_signal is
\* set by the destructor only and never reset; so all workers are alive as
\* long as stop_signal is unset, and a worker that makes its check with
\* stop_signal set exits and takes no task, whatever the queue holds
WorkersLiveUntilStopped ==
  /\ [](~ stop_signal => \A w \in Workers : pc[w] # "exit")
  /\ [][ /\ \A w \in Leaving :
              pc[w] = "check" /\ queue_mutex = w /\ stop_signal
         /\ stop_signal => stop_signal'
         /\ (~ stop_signal /\ stop_signal') =>
              (in_dtor /\ pc[Main] = "d_stop" /\ queue_mutex = Main)
         /\ \A w \in Workers :
              (stop_signal /\ pc[w] = "check" /\ pc'[w] # "check") =>
                /\ pc'[w] = "exit"
                /\ task_queue' = task_queue
                /\ task'[w] = task[w]
                /\ currently_executing_tasks' = currently_executing_tasks
         /\ \A w \in Workers : pc[w] = "exit" => pc'[w] = "exit" ]_vars

WorkersLiveUntilStopped_Witness ==
  /\ n_worker_threads = 2
  /\ stop_signal
  /\ pc[1] = "exit"
  /\ pc[2] = "check" /\ queue_mutex = 2
  /\ finished # {}

----------------------------------------------------------------------------
(* A task that calls join_all() on the pool it runs on *)

\* task(): the body of the task calls join_all() of the same pool; the
\* pool has workers, so join_all() enters its loop
TaskJoinAllCall(w) ==
  /\ pc[w] = "run"
  /\ pc' = [pc EXCEPT ![w] = JoinAllEntry(n_worker_threads)]
  /\ run_order' = Append(run_order, task[w])
  /\ UNCHANGED << n_worker_threads, stop_signal, task_queue,
                  currently_executing_tasks, queue_mutex, wake_up_mutex,
                  wake_up_signal, task, inline_stack, in_dtor, n_joined,
                  n_submitted, enqueued, started, finished, join_snapshot,
                  lock_order, pop_order >>
  /\ PoolFrame

\* std::lock_guard<std::mutex> lock(queue_mutex) inside join_all
TaskJoinLock(w) ==
  /\ pc[w] = "j_lock"
  /\ CanLock(queue_mutex)
  /\ queue_mutex' = w
  /\ pc' = [pc EXCEPT ![w] = "j_check"]
  /\ UNCHANGED << n_worker_threads, stop_signal, task_queue,
                  currently_executing_tasks, wake_up_mutex, wake_up_signal,
                  task, inline_stack, in_dtor, n_joined, n_submitted,
                  enqueued, started, finished, join_snapshot, lock_order,
                  pop_order, run_order >>
  /\ PoolFrame

\* if (task_queue.empty() && currently_executing_tasks == 0) return;
\* otherwise give the lock back, yield and try again. At "j_ret" join_all
\* has returned into the body of the task.
TaskJoinCheck(w) ==
  /\ pc[w] = "j_check"
  /\ queue_mutex' = NoThread
  /\ pc' = [pc EXCEPT ![w] =
              IF JoinAllDone(task_queue, currently_executing_tasks)
                THEN "j_ret" ELSE "j_lock"]
  /\ UNCHANGED << n_worker_threads, stop_signal, task_queue,
                  currently_executing_tasks, wake_up_mutex, wake_up_signal,
                  task, inline_stack, in_dtor, n_joined, n_submitted,
                  enqueued, started, finished, join_snapshot, lock_order,
                  pop_order, run_order >>
  /\ PoolFrame

NextPoolJoin ==
  \/ NextPool
  \/ \E w \in Workers : TaskJoinAllCall(w)
  \/ \E w \in Workers : TaskJoinLock(w)
  \/ \E w \in Workers : TaskJoinCheck(w)

SpecPoolJoin == InitPoolOnly /\ [][NextPoolJoin]_vars

\* the workers whose task is inside join_all()
JoiningInTask == { w \in Workers : pc[w] \in {"j_lock", "j_check", "j_ret"} }

\* C32: a join_all() called by a task that runs on a worker of the pool
\* never returns: as long as the task is inside join_all(),
\* currently_executing_tasks is at least 1
JoinAllInsideTaskNeverReturns ==
  \A w \in JoiningInTask :
    /\ pc[w] # "j_ret"
    /\ currently_executing_tasks >= 1
    /\ ~ JoinAllDone(task_queue, currently_executing_tasks)

JoinAllInsideTaskNeverReturns_Witness ==
  /\ n_worker_threads = 2
  /\ pc[1] = "j_check"
  /\ task_queue = << >>
  /\ currently_executing_tasks = 1
  /\ pc[2] = "waiting"
  /\ pc[Main] = "j_lock"

----------------------------------------------------------------------------
(* main's run: the sampler on its pool, a MeanValue connected to it, and   *)
(* main reading the mean once sampler.sample() has returned                 *)

\* 'mean_value.connect_to_producer (pass_through)', then sampler.sample()
\* with the budget n_samples_per_chain * n_chains; every thread of the
\* pool, and the main thread, may come to call consume
InitRun ==
  /\ InitPool
  /\ n_chains \in MinChains .. MaxChains
  /\ n_samples_per_chain \in 1 .. MaxPerChain
  /\ budget = MainBudget(n_samples_per_chain, n_chains)
  /\ generation = 0
  /\ population = [i \in Chains |-> 0]
  /\ snapshot = [i \in Chains |-> 0]
  /\ n_emitted = 0
  /\ mean_mutex = NoThread
  /\ current_mean \in IndeterminateMeans
  /\ n_samples = 0
  /\ mean_pc = [t \in 0 .. n_worker_threads |-> "idle"]
  /\ mean_sample = [t \in 0 .. n_worker_threads |-> 0]
  /\ calls_left = [t \in 0 .. n_worker_threads |-> 0]
  /\ n_calls = budget
  /\ submitted_sum = 0
  /\ consumed_sum = 0
  /\ consumed_n = 0
  /\ get_result = FracOfInt(0)
  /\ get_seen = [sum |-> 0, n |-> 0]

\* step 4: the sample the chain now holds is emitted. main enables no
\* offload, so the consumer's consume is called on the emitting thread
ChainDeliver(th) ==
  /\ pc[th] = "emit"
  /\ n_emitted' = n_emitted + 1
  /\ pc' = [pc EXCEPT ![th] = "deliver"]
  /\ LET sample == population[ChainOf(task[th].tid)]
     IN  /\ mean_sample' = [mean_sample EXCEPT ![th] = sample]
         /\ submitted_sum' = submitted_sum + sample
  /\ mean_pc' = [mean_pc EXCEPT ![th] = "c_lock"]
  /\ UNCHANGED << n_worker_threads, stop_signal, task_queue,
                  currently_executing_tasks, queue_mutex, wake_up_mutex,
                  wake_up_signal, task, inline_stack, in_dtor, n_joined,
                  n_submitted, enqueued, started, finished, join_snapshot,
                  lock_order, pop_order, run_order >>
  /\ UNCHANGED << n_chains, budget, n_samples_per_chain, generation,
                  population, snapshot >>
  /\ UNCHANGED << mean_mutex, current_mean, n_samples, calls_left, n_calls,
                  consumed_sum, consumed_n, get_result, get_seen >>
  /\ RunFrame

\* consume has returned, and so does emit; the task returns
ChainReturn(th) ==
  /\ pc[th] = "deliver"
  /\ mean_pc[th] = "idle"
  /\ finished' = finished \cup {task[th]}
  /\ IF th = Main
       THEN /\ pc' = [pc EXCEPT ![th] = "m_idle"]
            /\ task' = [task EXCEPT ![th] = NoTask]
            /\ enqueued' = enqueued \cup {task[th]}
       ELSE /\ pc' = [pc EXCEPT ![th] = "dec_lock"]
            /\ UNCHANGED << task, enqueued >>
  /\ UNCHANGED << n_worker_threads, stop_signal, task_queue,
                  currently_executing_tasks, queue_mutex, wake_up_mutex,
                  wake_up_signal, inline_stack, in_dtor, n_joined,
                  n_submitted, started, run_order, join_snapshot,
                  lock_order, pop_order >>
  /\ UNCHANGED driverVars
  /\ UNCHANGED meanVars
  /\ RunFrame

\* sampler.sample() has returned: main calls mean_value.get()
MainGet ==
  /\ pc[Main] = "m_done"
  /\ GetCall

NextRun ==
  \/ DriverSubmit
  \/ EnqLock(Main)
  \/ EnqPush(Main)
  \/ EnqNotify(Main)
  \/ DriverJoin
  \/ JoinLock
  \/ JoinCheck
  \/ DriverNextGeneration
  \/ \E th \in 0 .. n_worker_threads : ChainPropose(th)
  \/ \E th \in 0 .. n_worker_threads : ChainAccept(th)
  \/ \E th \in 0 .. n_worker_threads : ChainDeliver(th)
  \/ \E th \in 0 .. n_worker_threads : ConsumeLock(th)
  \/ \E th \in 0 .. n_worker_threads : ConsumeCount(th)
  \/ \E th \in 0 .. n_worker_threads : ConsumeFirst(th)
  \/ \E th \in 0 .. n_worker_threads : ConsumeUpdate(th)
  \/ \E th \in 0 .. n_worker_threads : ChainReturn(th)
  \/ \E w \in Workers : WorkerLock(w)
  \/ \E w \in Workers : WorkerCheck(w)
  \/ \E w \in Workers : WorkerDecLock(w)
  \/ \E w \in Workers : WorkerDec(w)
  \/ \E w \in Workers : WorkerIdle(w)
  \/ \E w \in Workers : WorkerWait(w)
  \/ \E w \in Workers : WorkerWake(w)
  \/ \E w \in Workers : WorkerWoken(w)
  \/ \E w \in Workers : SpuriousWake(w)
  \/ MainGet
  \/ GetLock
  \/ GetRead
  \/ GetReturn

\* the sampler, its pool and the consumer
InitRunOnly ==
  InitRun /\ NoFilter /\ NoDispatch /\ NoSeq /\ NoScore /\ NoCtor
    /\ NoSetup /\ NoRand /\ NoData

SpecRun == InitRunOnly /\ [][NextRun]_vars

----------------------------------------------------------------------------
(* Claims about the statistics main prints *)

\* the threads that are inside a step of a chain or inside consume
Processing ==
  { th \in 0 .. n_worker_threads :
      \/ pc[th] \in {"run", "accept", "emit", "deliver"}
      \/ (th # Reader /\ mean_pc[th] # "idle") }

\* C31: once sampler.sample() has returned, all
\* n_samples_per_chain * n_chains samples have been emitted and the
\* consumer has processed every one of them; nothing is queued or running
\* in the pool; so the value main reads with get() covers all samples
StatisticsCoverEverySample ==
  pc[Main] = "m_done" =>
    /\ n_emitted = n_samples_per_chain * n_chains
    /\ n_samples = n_emitted
    /\ consumed_n = n_emitted
    /\ consumed_sum = submitted_sum
    /\ Processing = {}
    /\ task_queue = << >>
    /\ currently_executing_tasks = 0
    /\ mean_pc[Reader] \in {"g_read", "g_ret"} =>
         get_seen = [sum |-> submitted_sum, n |-> n_emitted]
    /\ mean_pc[Reader] = "g_ret" =>
         FracTimesInt(get_result, n_emitted) = FracOfInt(submitted_sum)

StatisticsCoverEverySample_Witness ==
  /\ pc[Main] = "m_done"
  /\ n_worker_threads = 2
  /\ n_samples_per_chain = 2
  /\ mean_pc[Reader] = "g_ret"
  /\ get_seen.n = 6

====
